---------------------------- MODULE Spec2Model ----------------------------
(***************************************************************************)
(* A model of the device-side runtime of the AMDGPU HAL driver:            *)
(*   - the device->host post channel (host.c, iree_hal_amdgpu_device_     *)
(*     host_post) together with the host agent that consumes the queue;    *)
(*   - the command-buffer block issuer (command_buffer.c);                 *)
(*   - the queue scheduler tick (scheduler.c).                             *)
(* Each part has its own specification (SpecHost, SpecIssue, SpecSched);   *)
(* the variables of the other parts keep their initial values.             *)
(***************************************************************************)
EXTENDS Integers, Naturals, Sequences, FiniteSets, TLC

(***************************************************************************)
(* Bounds of the model.                                                    *)
(***************************************************************************)
\* log2 of the number of packets of the host queue (size is a power of two).
HostQueueLog2 == 1
\* Number of device agents (schedulers) posting to the same host queue.
NumProducers == 2
\* Number of posts made to the host queue over a run.
MaxPosts == 4

(***************************************************************************)
(* Bit arithmetic on naturals, as the C operators compute it.              *)
(***************************************************************************)
RECURSIVE BitAnd(_, _)
BitAnd(a, b) ==
  IF a = 0 \/ b = 0 THEN 0
  ELSE (IF a % 2 = 1 /\ b % 2 = 1 THEN 1 ELSE 0) + 2 * BitAnd(a \div 2, b \div 2)

RECURSIVE BitOr(_, _)
BitOr(a, b) ==
  IF a = 0 THEN b
  ELSE IF b = 0 THEN a
  ELSE (IF a % 2 = 1 \/ b % 2 = 1 THEN 1 ELSE 0) + 2 * BitOr(a \div 2, b \div 2)

Shl(a, n) == a * (2 ^ n)

(***************************************************************************)
(* HSA packet constants (support/queue.h).                                 *)
(***************************************************************************)
IREE_HSA_PACKET_TYPE_INVALID == 1
IREE_HSA_PACKET_TYPE_KERNEL_DISPATCH == 2
IREE_HSA_PACKET_TYPE_AGENT_DISPATCH == 4
IREE_HSA_PACKET_HEADER_TYPE == 0
IREE_HSA_PACKET_HEADER_BARRIER == 8
IREE_HSA_PACKET_HEADER_SCACQUIRE_FENCE_SCOPE == 9
IREE_HSA_PACKET_HEADER_SCRELEASE_FENCE_SCOPE == 11
IREE_HSA_FENCE_SCOPE_SYSTEM == 2

\* Agent-dispatch types of the host calls (host.h).
IREE_HAL_AMDGPU_DEVICE_HOST_CALL_POOL_GROW == 0
IREE_HAL_AMDGPU_DEVICE_HOST_CALL_POOL_TRIM == 1
IREE_HAL_AMDGPU_DEVICE_HOST_CALL_POST_RELEASE == 2
IREE_HAL_AMDGPU_DEVICE_HOST_CALL_POST_ERROR == 3
IREE_HAL_AMDGPU_DEVICE_HOST_CALL_POST_SIGNAL == 4
IREE_HAL_AMDGPU_DEVICE_HOST_CALL_POST_TRACE_FLUSH == 5

\* The host calls the producers of this model make: host_post is handed any
\* of the call types.
PostedCallTypes == { IREE_HAL_AMDGPU_DEVICE_HOST_CALL_POOL_GROW,
                     IREE_HAL_AMDGPU_DEVICE_HOST_CALL_POOL_TRIM,
                     IREE_HAL_AMDGPU_DEVICE_HOST_CALL_POST_RELEASE,
                     IREE_HAL_AMDGPU_DEVICE_HOST_CALL_POST_ERROR,
                     IREE_HAL_AMDGPU_DEVICE_HOST_CALL_POST_SIGNAL,
                     IREE_HAL_AMDGPU_DEVICE_HOST_CALL_POST_TRACE_FLUSH }

\* The type field (bits 7:0) of a 32-bit header word.
HeaderTypeOf(word) == BitAnd(word, 255)

(***************************************************************************)
(* State.                                                                  *)
(***************************************************************************)
VARIABLES
  \* --- host post channel ---
  host_write_index,   \* iree_hsa_queue_t write index of the host queue
  host_read_index,    \* read index, advanced by the host agent
  host_packets,       \* slot -> agent-dispatch packet (header word + body)
  host_doorbell,      \* value last stored to host->doorbell_signal
  host_publisher,     \* slot -> tag of the post whose header store typed it
  post,               \* producer -> state of its call of host_post
  host_callers,       \* the producers that have called host_post so far
  \* --- command-buffer block issue ---
  block,              \* the recorded command block being issued
  exec_packets,       \* execution-queue slot (relative to base_queue_index) -> packet
  item,               \* work-item of issue_block -> where it is
  kernargs,           \* command ordinal -> kernargs stored for its fixup dispatch
  workgroups,         \* the uint32_t[3] workgroup count buffer (one value for x,y,z)
  fixup,              \* command ordinal -> state of its workgroup_count_update run
  null_mem,           \* what the last store through a NULL packet pointer left behind
  issue_returns,      \* scheduler_enqueue calls made by RETURN commands
  scheduler_queue,    \* scheduler->scheduler_queue: write index and slot -> header type
  \* --- queue scheduler ---
  mailbox,            \* soft queue of submitted entries, oldest first
  entry_waits,        \* entry -> its wait_semaphore_list (entries[0 .. count-1])
  entry_epoch,        \* entry -> header.epoch
  entry_next,         \* entry -> header.list_next
  wait_list,          \* scheduler->wait_list  {head, tail}
  run_list,           \* scheduler->run_list   {head, tail}
  sched_epoch,        \* the submission counter of the scheduler
  semaphore_payload,  \* semaphore -> current payload
  wake_pool,          \* semaphore -> wake-pool entry of this scheduler
  tick_pending,       \* a tick dispatch waits on the scheduler queue
  tick,               \* the tick in flight: its locals and what it did so far
  issued,             \* the entries handed to queue_issue, in order
  sched_fault,        \* the tick kernel faulted
  submitted,          \* entry -> the waits it was submitted with
  wake_pool_capacity, \* number of entries of the wake pool
  wake_pool_failure,  \* the first reservation the wake pool could not serve
  \* --- trace ring buffer ---
  trace_buffer,       \* write_reserve_offset, write_commit_offset, read_commit_offset
  trace_writer,       \* work-item -> state of its call of trace_reserve_range
  trace_commit,       \* the call of trace_commit_range: its locals and what it returned
  \* --- buffer references ---
  binding_table,      \* state->bindings: the binding table of the execution
  resolve,            \* the last call of buffer_ref_resolve: argument, reads, result
  \* --- dispatch packet headers ---
  execution_flags,    \* state->flags of the execution
  dispatch_commit,    \* the calls of cmd_dispatch_commit: the last arguments and header
  \* --- query ringbuffer and query ids ---
  query_ringbuffer,   \* read_index, write_index and the signals of the ringbuffer
  query_call,         \* the last call of acquire or release: count and returned base
  issue_query,        \* the last query id issue_block computed, and from what
  \* --- device mutex ---
  mutex,              \* the atomic uint32 of the spin-lock
  mutex_thread,       \* thread -> where it is in mutex_lock / mutex_unlock
  mutex_lock_returns  \* parity of the number of returns from mutex_lock

host_vars == << host_write_index, host_read_index, host_packets, host_doorbell,
                host_publisher, post, host_callers >>

issue_vars == << block, exec_packets, item, kernargs, workgroups, fixup, null_mem,
                 issue_returns, scheduler_queue >>

sched_vars == << mailbox, entry_waits, entry_epoch, entry_next, wait_list, run_list,
                 sched_epoch, semaphore_payload, wake_pool, tick_pending, tick, issued,
                 sched_fault, submitted, wake_pool_capacity, wake_pool_failure >>

\* What no scheduler step but a failing reservation changes.
PoolUntouched == UNCHANGED << wake_pool_capacity, wake_pool_failure >>

trace_vars == << trace_buffer, trace_writer, trace_commit >>

resolve_vars == << binding_table, resolve >>

commit_vars == << execution_flags, dispatch_commit >>

query_vars == << query_ringbuffer, query_call, issue_query >>

mutex_vars == << mutex, mutex_thread, mutex_lock_returns >>

vars == << host_vars, issue_vars, sched_vars, trace_vars, resolve_vars, commit_vars,
           query_vars, mutex_vars >>

\* The steps of the host channel leave the other parts alone.
HostFrame == UNCHANGED << issue_vars, sched_vars, trace_vars, resolve_vars,
                       commit_vars, query_vars, mutex_vars >>

\* The steps of the block issuer leave the other parts alone.
IssueFrame == UNCHANGED << host_vars, sched_vars, trace_vars, resolve_vars,
                       commit_vars, query_vars, mutex_vars >>

\* The steps of the scheduler leave the other parts alone.
SchedFrame == UNCHANGED << host_vars, issue_vars, trace_vars, resolve_vars,
                       commit_vars, query_vars, mutex_vars >>

\* The steps of the trace buffer leave the other parts alone.
TraceFrame == UNCHANGED << host_vars, issue_vars, sched_vars, resolve_vars,
                       commit_vars, query_vars, mutex_vars >>

\* The calls of buffer_ref_resolve leave the other parts alone.
ResolveFrame == UNCHANGED << host_vars, issue_vars, sched_vars, trace_vars,
                          commit_vars, query_vars, mutex_vars >>

\* The calls of cmd_dispatch_commit leave the other parts alone.
CommitFrame == UNCHANGED << host_vars, issue_vars, sched_vars, trace_vars,
                         resolve_vars, query_vars, mutex_vars >>

\* The calls on the query ringbuffer leave the other parts alone.
QueryFrame == UNCHANGED << host_vars, issue_vars, sched_vars, trace_vars,
                        resolve_vars, commit_vars, mutex_vars >>

\* The steps of the mutex leave the other parts alone.
MutexFrame == UNCHANGED << host_vars, issue_vars, sched_vars, trace_vars,
                        resolve_vars, commit_vars, query_vars >>

(***************************************************************************)
(* Host post channel.                                                      *)
(***************************************************************************)
Producers == 1 .. NumProducers

\* host->size: the maximum number of packets the queue holds (a power of 2).
HostQueueSize == 2 ^ HostQueueLog2

HostSlots == 0 .. (HostQueueSize - 1)

\* The body fields host_post populates before the header.
BodyFields == { "reserved0", "return_address", "arg0", "arg1", "arg2", "arg3",
                "reserved2", "completion_signal" }

\* Field value of memory no post has written yet.
Stale == -1

\* The arguments of the post of producer p that reserved packet_id, as one
\* value: the caller passes it as return_address, arg0..arg3 and
\* completion_signal.
TagOf(p, packet_id) == p * 100 + packet_id

\* The body a post with arguments `tag` writes.
BodyOf(tag) ==
  [ f \in BodyFields |-> IF f \in {"reserved0", "reserved2"} THEN 0 ELSE tag ]

\* The value host_post stores to field f.
FieldValue(f, tag) == BodyOf(tag)[f]

InvalidHeaderWord == Shl(IREE_HSA_PACKET_TYPE_INVALID, IREE_HSA_PACKET_HEADER_TYPE)

EmptyPacket == [ f \in BodyFields \cup {"header"} |->
                   IF f = "header" THEN InvalidHeaderWord ELSE Stale ]

\* A header word with the call type one byte too low.
HostPostHeaderWordTypeAtBit8(type) ==
  LET h0 == Shl(IREE_HSA_PACKET_TYPE_AGENT_DISPATCH, IREE_HSA_PACKET_HEADER_TYPE)
      h1 == BitOr(h0, Shl(1, IREE_HSA_PACKET_HEADER_BARRIER))
      h2 == BitOr(h1, Shl(IREE_HSA_FENCE_SCOPE_SYSTEM,
                          IREE_HSA_PACKET_HEADER_SCACQUIRE_FENCE_SCOPE))
      h3 == BitOr(h2, Shl(IREE_HSA_FENCE_SCOPE_SYSTEM,
                          IREE_HSA_PACKET_HEADER_SCRELEASE_FENCE_SCOPE))
  IN  BitOr(h3, Shl(type, 8))

\* The 32-bit word host_post stores over the header and type fields.
HostPostHeaderWord(type) ==
  LET h0 == Shl(IREE_HSA_PACKET_TYPE_AGENT_DISPATCH, IREE_HSA_PACKET_HEADER_TYPE)
      h1 == BitOr(h0, Shl(1, IREE_HSA_PACKET_HEADER_BARRIER))
      h2 == BitOr(h1, Shl(IREE_HSA_FENCE_SCOPE_SYSTEM,
                          IREE_HSA_PACKET_HEADER_SCACQUIRE_FENCE_SCOPE))
      h3 == BitOr(h2, Shl(IREE_HSA_FENCE_SCOPE_SYSTEM,
                          IREE_HSA_PACKET_HEADER_SCRELEASE_FENCE_SCOPE))
  IN  BitOr(h3, Shl(type, 16))

\* The statements of host_post after the capacity wait, in program order.
HostPostProgramHeaderFirst ==
  << "header", "reserved0", "return_address", "arg0", "arg1", "arg2", "arg3",
     "reserved2", "completion_signal", "doorbell" >>

HostPostProgram ==
  << "reserved0", "return_address", "arg0", "arg1", "arg2", "arg3",
     "reserved2", "completion_signal", "header", "doorbell" >>

\* The exit condition of the capacity wait: the loop spins while
\* packet_id - read_index >= size, computed in uint64_t (a read index beyond
\* packet_id wraps to a huge difference and keeps the loop spinning).
HostPostHasCapacityOffByOne(packet_id, read_index) ==
  packet_id >= read_index /\ packet_id - read_index <= HostQueueSize

HostPostHasCapacity(packet_id, read_index) ==
  packet_id >= read_index /\ packet_id - read_index < HostQueueSize

\* agent_packet = base_address + (packet_id & queue_mask) * 64
HostSlotOf(packet_id) == BitAnd(packet_id, HostQueueSize - 1)

IdlePost == [ pc |-> "idle", at |-> 0, packet_id |-> 0, tag |-> 0 ]

\* Slots of the scheduler queue.
SchedulerQueueSize == 2

\* The scheduler queue with no tick dispatch on it: every slot INVALID.
EmptySchedulerQueue ==
  [ write_index |-> 0,
    headers |-> [ q \in 0 .. (SchedulerQueueSize - 1) |-> IREE_HSA_PACKET_TYPE_INVALID ] ]

\* The block issuer at rest: nothing recorded, nothing to issue.
IssueUnused ==
  /\ block = [ commands |-> << >>, max_packet_count |-> 0, tracing |-> FALSE ]
  /\ exec_packets = << >>
  /\ item = << >>
  /\ kernargs = << >>
  /\ workgroups = 1
  /\ fixup = << >>
  /\ null_mem = [ kind |-> "none", grid |-> 0 ]
  /\ issue_returns = 0
  /\ scheduler_queue = EmptySchedulerQueue

\* The scheduler at rest: nothing submitted, no tick queued.
SchedUnused ==
  /\ mailbox = << >>
  /\ entry_waits = << >>
  /\ entry_epoch = << >>
  /\ entry_next = << >>
  /\ wait_list = [ head |-> 0, tail |-> 0 ]
  /\ run_list = [ head |-> 0, tail |-> 0 ]
  /\ sched_epoch = 0
  /\ semaphore_payload = << >>
  /\ wake_pool = << >>
  /\ tick_pending = FALSE
  /\ tick = [ pc |-> "idle" ]
  /\ issued = << >>
  /\ sched_fault = FALSE
  /\ submitted = << >>
  /\ wake_pool_capacity = 0
  /\ wake_pool_failure = [ failed |-> FALSE, issued |-> 0 ]

\* Work-items that emit trace events.
NumTraceWriters == 2

TraceWriters == 1 .. NumTraceWriters

\* fits: whether the ring had room for the last reservation the work-item
\* made when trace_reserve_range returned.  ranges: the [offset, length] of
\* every reservation the work-item made; returned_offset and packet_ptr: the
\* offset and the pointer of its last return.
IdleTraceWriter ==
  [ pc |-> "idle", write_offset |-> 0, length |-> 0, fits |-> TRUE,
    ranges |-> << >>, returned_offset |-> 0, packet_ptr |-> 0 ]

IdleTraceCommit ==
  [ pc |-> "idle", last_reserve_offset |-> 0, last_commit_offset |-> 0,
    result |-> FALSE, calls |-> 0, notified |-> 0,
    reserved_since_load |-> FALSE, batch |-> FALSE ]

\* The trace buffer as the host hands it over: all offsets 0, nobody in a call.
TraceUnused ==
  /\ trace_buffer = [ write_reserve_offset |-> 0, write_commit_offset |-> 0,
                      read_commit_offset |-> 0 ]
  /\ trace_writer = [ w \in TraceWriters |-> IdleTraceWriter ]
  /\ trace_commit = IdleTraceCommit

\* An exchange that stores one byte more than the reserve offset loaded.
trace_commit_ahead(last_reserve_offset) == last_reserve_offset + 1

\* The value trace_commit_range exchanges into write_commit_offset.
trace_commit_value(last_reserve_offset) == last_reserve_offset

\* No call of buffer_ref_resolve made yet.
NoResolve ==
  [ called |-> FALSE, buffer_ref |-> [ offset |-> 0, length_type |-> 0, bits |-> 0 ],
    reads |-> {}, fault |-> FALSE, ptr |-> 0 ]

\* An execution without a binding table that resolves no reference.
ResolveUnused ==
  /\ binding_table = << >>
  /\ resolve = NoResolve

\* No call of cmd_dispatch_commit made yet.
NoCommit == [ calls |-> 0, cmd_flags |-> 0, setup |-> 0, header_type |-> 0,
              packet_header |-> InvalidHeaderWord ]

\* An execution without flags that commits no dispatch.
CommitUnused ==
  /\ execution_flags = 0
  /\ dispatch_commit = NoCommit

\* log2 of the number of signals of the query ringbuffer.
QuerySignalsLog2 == 1

QuerySignalCount == 2 ^ QuerySignalsLog2

QuerySlots == 0 .. (QuerySignalCount - 1)

\* A signal as query_ringbuffer_initialize and query_ringbuffer_release leave it.
FreshSignal == [ value |-> 1, start_ts |-> 0, end_ts |-> 0 ]

\* iree_hal_amdgpu_device_query_ringbuffer_initialize on zeroed memory.
query_ringbuffer_initialize ==
  [ read_index |-> 0, write_index |-> 0,
    signals |-> [ s \in QuerySlots |-> FreshSignal ] ]

NoQueryCall == [ op |-> "none", count |-> 0, base |-> 0, acquired |-> 0 ]

NoIssueQuery == [ called |-> FALSE, control_id |-> 0, dispatch_id |-> 0,
                  from |-> "none", execution_query_id |-> 0 ]

\* An initialized query ringbuffer no call was made on.
QueryUnused ==
  /\ query_ringbuffer = query_ringbuffer_initialize
  /\ query_call = NoQueryCall
  /\ issue_query = NoIssueQuery

IREE_HAL_AMDGPU_DEVICE_MUTEX_UNLOCKED == 0
IREE_HAL_AMDGPU_DEVICE_MUTEX_LOCKED == 1

\* Threads that use the mutex.
NumThreads == 3

Threads == 1 .. NumThreads

\* iree_hal_amdgpu_device_mutex_initialize, no thread inside lock or unlock.
MutexUnused ==
  /\ mutex = IREE_HAL_AMDGPU_DEVICE_MUTEX_UNLOCKED
  /\ mutex_thread = [ t \in Threads |-> "idle" ]
  /\ mutex_lock_returns = 0

InitHost ==
  /\ host_write_index = 0
  /\ host_read_index = 0
  /\ host_packets = [ s \in HostSlots |-> EmptyPacket ]
  /\ host_doorbell = Stale
  /\ host_publisher = [ s \in HostSlots |-> Stale ]
  /\ post = [ p \in Producers |-> IdlePost ]
  /\ host_callers = {}

\* Entry of host_post: packet_id = add_write_index(host, 1, relaxed).
HostPostReserve(p) ==
  /\ post[p].pc = "idle"
  /\ host_write_index < MaxPosts
  /\ host_write_index' = host_write_index + 1
  /\ post' = [ post EXCEPT ![p] =
                 [ pc |-> "spin", at |-> 0, packet_id |-> host_write_index,
                   tag |-> TagOf(p, host_write_index) ] ]
  /\ host_callers' = host_callers \cup { p }
  /\ UNCHANGED << host_read_index, host_packets, host_doorbell, host_publisher >>
  /\ HostFrame

\* One evaluation of the while condition: yield and retry, or leave the loop.
HostPostSpin(p) ==
  /\ post[p].pc = "spin"
  /\ post' = IF HostPostHasCapacity(post[p].packet_id, host_read_index)
               THEN [ post EXCEPT ![p].pc = "store", ![p].at = 1 ]
               ELSE post
  /\ UNCHANGED << host_write_index, host_read_index, host_packets, host_doorbell,
                  host_publisher, host_callers >>
  /\ HostFrame

\* The post after its statement at position post[p].at has run; host_post
\* returns after the last one.
PostAdvanced(p) ==
  IF post[p].at = Len(HostPostProgram)
    THEN [ post EXCEPT ![p] = IdlePost ]
    ELSE [ post EXCEPT ![p].at = post[p].at + 1 ]

\* agent_packet-><field> = ...: a plain store to one body field.
HostPostWriteField(p) ==
  /\ post[p].pc = "store"
  /\ HostPostProgram[post[p].at] \in BodyFields
  /\ LET f == HostPostProgram[post[p].at]
         s == HostSlotOf(post[p].packet_id)
     IN  host_packets' = [ host_packets EXCEPT ![s][f] = FieldValue(f, post[p].tag) ]
  /\ post' = PostAdvanced(p)
  /\ UNCHANGED << host_write_index, host_read_index, host_doorbell, host_publisher,
                  host_callers >>
  /\ HostFrame

\* atomic_store_explicit(agent_packet, header_type, release, all_svm_devices);
\* `type` is the argument of the call, first used by this store.
HostPostStoreHeader(p, type) ==
  /\ post[p].pc = "store"
  /\ HostPostProgram[post[p].at] = "header"
  /\ LET s == HostSlotOf(post[p].packet_id)
     IN  /\ host_packets' = [ host_packets EXCEPT
                                ![s].header = HostPostHeaderWord(type) ]
         /\ host_publisher' = [ host_publisher EXCEPT ![s] = post[p].tag ]
  /\ post' = PostAdvanced(p)
  /\ UNCHANGED << host_write_index, host_read_index, host_doorbell, host_callers >>
  /\ HostFrame

\* A doorbell value that is the write index after the reservation.
doorbell_new_write_index(packet_id) == packet_id + 1

\* The value host_post stores to the doorbell signal: the id of the packet.
doorbell_value(packet_id) == packet_id

\* iree_hsa_signal_store(host->doorbell_signal, packet_id, relaxed)
HostPostDoorbell(p) ==
  /\ post[p].pc = "store"
  /\ HostPostProgram[post[p].at] = "doorbell"
  /\ host_doorbell' = doorbell_value(post[p].packet_id)
  /\ post' = PostAdvanced(p)
  /\ UNCHANGED << host_write_index, host_read_index, host_packets, host_publisher,
                  host_callers >>
  /\ HostFrame

\* The host agent, the only consumer: it takes the packet at the read index
\* once its header is no longer INVALID, hands the slot back as INVALID and
\* advances the read index (HSA soft-queue protocol).
HostConsume ==
  LET s == HostSlotOf(host_read_index) IN
  /\ HeaderTypeOf(host_packets[s].header) # IREE_HSA_PACKET_TYPE_INVALID
  /\ host_packets' = [ host_packets EXCEPT ![s].header = InvalidHeaderWord ]
  /\ host_read_index' = host_read_index + 1
  /\ UNCHANGED << host_write_index, host_doorbell, host_publisher, post, host_callers >>
  /\ HostFrame

NextHost ==
  \/ \E p \in Producers : HostPostReserve(p)
  \/ \E p \in Producers : HostPostSpin(p)
  \/ \E p \in Producers : HostPostWriteField(p)
  \/ \E p \in Producers, type \in PostedCallTypes : HostPostStoreHeader(p, type)
  \/ \E p \in Producers : HostPostDoorbell(p)
  \/ HostConsume

HostChannelInit == InitHost /\ IssueUnused /\ SchedUnused /\ TraceUnused /\ ResolveUnused
                     /\ CommitUnused /\ QueryUnused /\ MutexUnused

SpecHost == HostChannelInit /\ [][NextHost]_vars

\* The statements of its current call producer p has executed so far.
StoredBy(p) ==
  IF post[p].pc = "store"
    THEN { HostPostProgram[i] : i \in 1 .. (post[p].at - 1) }
    ELSE {}

\* Producer p is between the capacity wait and its header store.
WritingBody(p) == post[p].pc = "store" /\ "header" \notin StoredBy(p)

SlotTyped(s) == HeaderTypeOf(host_packets[s].header) # IREE_HSA_PACKET_TYPE_INVALID

\* The packet id a tag was made for.
PacketIdOfTag(tag) == tag % 100

(***************************************************************************)
(* C1.  host_post stores the packet header (INVALID -> AGENT_DISPATCH)     *)
(* only after reserved0, return_address, arg[0..3], reserved2 and          *)
(* completion_signal of that packet are written; the doorbell is stored    *)
(* only after the header of that packet id is stored; and every slot whose *)
(* header is typed carries, in every body field, the value written by the  *)
(* post that published it, whatever the interleaving with other producers  *)
(* and with the host.                                                      *)
(***************************************************************************)
C1_HeaderAfterBody_DoorbellAfterHeader ==
  /\ \A p \in Producers : "header" \in StoredBy(p) => BodyFields \subseteq StoredBy(p)
  /\ host_doorbell # Stale =>
        \/ host_read_index > host_doorbell
        \/ /\ SlotTyped(HostSlotOf(host_doorbell))
           /\ PacketIdOfTag(host_publisher[HostSlotOf(host_doorbell)]) = host_doorbell
  /\ \A s \in HostSlots :
        SlotTyped(s) =>
          /\ HeaderTypeOf(host_packets[s].header) = IREE_HSA_PACKET_TYPE_AGENT_DISPATCH
          /\ \A f \in BodyFields : host_packets[s][f] = BodyOf(host_publisher[s])[f]

\* A published, not yet consumed packet in a reused slot whose doorbell has
\* rung, while another producer is in the middle of writing a body.
C1_Witness ==
  /\ host_doorbell # Stale
  /\ host_doorbell >= HostQueueSize
  /\ host_read_index <= host_doorbell
  /\ SlotTyped(HostSlotOf(host_doorbell))
  /\ \E p \in Producers : WritingBody(p) /\ "arg1" \in StoredBy(p)

(***************************************************************************)
(* C2.  Concurrent posts hold distinct packet ids; a post writes its slot  *)
(* (packet_id & (size - 1)) only while packet_id - read_index < size; no   *)
(* two posts that are writing write the same slot; and the slot a post     *)
(* writes holds no packet the host has not consumed.                       *)
(***************************************************************************)
C2_ExclusiveSlots ==
  /\ \A p, q \in Producers :
        (p # q /\ post[p].pc # "idle" /\ post[q].pc # "idle") =>
          post[p].packet_id # post[q].packet_id
  /\ \A p \in Producers :
        WritingBody(p) =>
          /\ post[p].packet_id >= host_read_index
          /\ post[p].packet_id - host_read_index < HostQueueSize
          /\ ~SlotTyped(HostSlotOf(post[p].packet_id))
  /\ \A p, q \in Producers :
        (p # q /\ WritingBody(p) /\ WritingBody(q)) =>
          HostSlotOf(post[p].packet_id) # HostSlotOf(post[q].packet_id)

\* Two producers write bodies at the same time, one of them into a slot
\* that already held an earlier packet, while a third post waits for room.
C2_Witness ==
  \E p, q \in Producers :
    /\ p # q
    /\ WritingBody(p) /\ post[p].packet_id >= HostQueueSize
    /\ WritingBody(q) /\ "arg0" \in StoredBy(q)

(***************************************************************************)
(* Command-buffer block issue (command_buffer.c).                          *)
(***************************************************************************)
\* Number of commands of the largest recorded block.
MaxCommands == 2
\* Work-items of the issue_block grid beyond command_count.
ExtraWorkItems == 1

IREE_HAL_AMDGPU_DEVICE_CMD_DEBUG_GROUP_BEGIN == 0
IREE_HAL_AMDGPU_DEVICE_CMD_DEBUG_GROUP_END == 1
IREE_HAL_AMDGPU_DEVICE_CMD_BARRIER == 2
IREE_HAL_AMDGPU_DEVICE_CMD_SIGNAL_EVENT == 3
IREE_HAL_AMDGPU_DEVICE_CMD_RESET_EVENT == 4
IREE_HAL_AMDGPU_DEVICE_CMD_WAIT_EVENTS == 5
IREE_HAL_AMDGPU_DEVICE_CMD_FILL_BUFFER == 6
IREE_HAL_AMDGPU_DEVICE_CMD_COPY_BUFFER == 7
IREE_HAL_AMDGPU_DEVICE_CMD_DISPATCH == 8
IREE_HAL_AMDGPU_DEVICE_CMD_DISPATCH_INDIRECT_DYNAMIC == 9
IREE_HAL_AMDGPU_DEVICE_CMD_BRANCH == 10
IREE_HAL_AMDGPU_DEVICE_CMD_RETURN == 11
IREE_HAL_AMDGPU_DEVICE_CMD_WAIT_EVENTS_PER_AQL_PACKET == 5

\* A type value outside the enum, as a corrupted or newer block carries.
UnknownCmdType == IREE_HAL_AMDGPU_DEVICE_CMD_RETURN + 1

CmdTypes == IREE_HAL_AMDGPU_DEVICE_CMD_DEBUG_GROUP_BEGIN .. UnknownCmdType

\* Values the workgroup count buffer takes.
WorkgroupCounts == { 1, 2 }

CeilDiv(a, b) == (a + b - 1) \div b

\* IREE_HAL_AMDGPU_DEVICE_CMD_*_AQL_PACKET_COUNT: the packets a command
\* declares when it is recorded (an unknown type is taken to declare one).
AqlPacketCount(cmd, tracing) ==
  CASE cmd.type \in { IREE_HAL_AMDGPU_DEVICE_CMD_DEBUG_GROUP_BEGIN,
                      IREE_HAL_AMDGPU_DEVICE_CMD_DEBUG_GROUP_END } ->
         IF tracing THEN 1 ELSE 0
    [] cmd.type = IREE_HAL_AMDGPU_DEVICE_CMD_WAIT_EVENTS ->
         CeilDiv(cmd.event_count, IREE_HAL_AMDGPU_DEVICE_CMD_WAIT_EVENTS_PER_AQL_PACKET)
    [] cmd.type = IREE_HAL_AMDGPU_DEVICE_CMD_DISPATCH_INDIRECT_DYNAMIC -> 2
    [] OTHER -> 1

\* The commands a recorder may append: every type, DISPATCH with a constant
\* or an INDIRECT_STATIC workgroup count, WAIT_EVENTS with 1 or 6 events.
CmdChoices ==
  { [ type |-> t, indirect_static |-> FALSE,
      event_count |-> IF t = IREE_HAL_AMDGPU_DEVICE_CMD_WAIT_EVENTS THEN 1 ELSE 0 ] :
      t \in CmdTypes }
  \cup { [ type |-> IREE_HAL_AMDGPU_DEVICE_CMD_DISPATCH, indirect_static |-> TRUE,
           event_count |-> 0 ],
         [ type |-> IREE_HAL_AMDGPU_DEVICE_CMD_WAIT_EVENTS, indirect_static |-> FALSE,
           event_count |-> 6 ] }

RECURSIVE PacketsBefore(_, _, _)
PacketsBefore(cmds, n, tracing) ==
  IF n = 0 THEN 0
  ELSE PacketsBefore(cmds, n - 1, tracing) + AqlPacketCount(cmds[n], tracing)

\* The block the host-side recorder builds from a command list: command i
\* (ordinal i - 1) gets the packets after those of the commands before it,
\* and max_packet_count is the total.
RecordedBlock(cmds, tracing) ==
  [ commands |-> [ i \in 1 .. Len(cmds) |->
                     [ type |-> cmds[i].type,
                       indirect_static |-> cmds[i].indirect_static,
                       event_count |-> cmds[i].event_count,
                       packet_offset |-> PacketsBefore(cmds, i - 1, tracing) ] ],
    max_packet_count |-> PacketsBefore(cmds, Len(cmds), tracing),
    tracing |-> tracing ]

CommandLists == UNION { [ 1 .. n -> CmdChoices ] : n \in 1 .. MaxCommands }

command_count == Len(block.commands)

\* global ids of the issue_block grid
WorkItems == 0 .. (command_count + ExtraWorkItems - 1)

\* cmd = &block->commands[command_ordinal]
CmdOf(w) == block.commands[w + 1]

\* queue_index = base_queue_index + cmd->header.packet_offset, relative to
\* base_queue_index.
QueueIndexOf(w) == CmdOf(w).packet_offset

InvalidPacket == [ header |-> IREE_HSA_PACKET_TYPE_INVALID, body |-> "none", grid |-> 0 ]

NoKernargs == [ stored |-> FALSE, workgroups_ptr |-> FALSE, dispatch_packet |-> "none" ]

InitIssue ==
  /\ \E cmds \in CommandLists, tracing \in BOOLEAN :
       block = RecordedBlock(cmds, tracing)
  /\ exec_packets = [ q \in 0 .. (block.max_packet_count - 1) |-> InvalidPacket ]
  /\ item = [ w \in WorkItems |-> "start" ]
  /\ kernargs = [ w \in WorkItems |-> NoKernargs ]
  /\ workgroups \in WorkgroupCounts
  /\ fixup = [ w \in WorkItems |-> [ state |-> "not_run", grid_read |-> 0 ] ]
  /\ null_mem = [ kind |-> "none", grid |-> 0 ]
  /\ issue_returns = 0
  /\ scheduler_queue = EmptySchedulerQueue

\* What a store through a packet pointer that is NULL does: the kernel
\* faults, or the store goes to address 0 and the kernel carries on.  The
\* queue slot the pointer was meant to name is written in neither case.
NullStoreOutcomes == { "fault", "stray" }

NullStored(outcome, kind, grid) ==
  IF outcome = "stray" THEN [ kind |-> kind, grid |-> grid ] ELSE null_mem

AfterNullStore(outcome, next) == IF outcome = "stray" THEN next ELSE "faulted"


IssueUntouched == UNCHANGED << block, exec_packets, workgroups >>

\* if (command_ordinal >= command_count) return;
IssueBlockOutOfRange(w) ==
  /\ item[w] = "start"
  /\ w >= command_count
  /\ item' = [ item EXCEPT ![w] = "done" ]
  /\ UNCHANGED << kernargs, fixup, null_mem, issue_returns,
                  scheduler_queue >>
  /\ IssueUntouched /\ IssueFrame

\* switch (cmd->header.type) { default: return;  // no-op
IssueBlockDefault(w) ==
  /\ item[w] = "start"
  /\ w < command_count
  /\ CmdOf(w).type > IREE_HAL_AMDGPU_DEVICE_CMD_RETURN
  /\ item' = [ item EXCEPT ![w] = "done" ]
  /\ UNCHANGED << kernargs, fixup, null_mem, issue_returns,
                  scheduler_queue >>
  /\ IssueUntouched /\ IssueFrame

\* cmd_debug_group_begin_issue / cmd_debug_group_end_issue: both end in
\* cmd_marker, whose body is empty.
CmdDebugGroupIssue(w) ==
  /\ item[w] = "start"
  /\ w < command_count
  /\ CmdOf(w).type \in { IREE_HAL_AMDGPU_DEVICE_CMD_DEBUG_GROUP_BEGIN,
                         IREE_HAL_AMDGPU_DEVICE_CMD_DEBUG_GROUP_END }
  /\ item' = [ item EXCEPT ![w] = "done" ]
  /\ UNCHANGED << kernargs, fixup, null_mem, issue_returns,
                  scheduler_queue >>
  /\ IssueUntouched /\ IssueFrame

\* cmd_barrier_issue, cmd_signal_event_issue, cmd_reset_event_issue,
\* cmd_wait_events_issue, cmd_branch_issue: the bodies hold no statement.
CmdEmptyIssue(w) ==
  /\ item[w] = "start"
  /\ w < command_count
  /\ CmdOf(w).type \in { IREE_HAL_AMDGPU_DEVICE_CMD_BARRIER,
                         IREE_HAL_AMDGPU_DEVICE_CMD_SIGNAL_EVENT,
                         IREE_HAL_AMDGPU_DEVICE_CMD_RESET_EVENT,
                         IREE_HAL_AMDGPU_DEVICE_CMD_WAIT_EVENTS,
                         IREE_HAL_AMDGPU_DEVICE_CMD_BRANCH }
  /\ item' = [ item EXCEPT ![w] = "done" ]
  /\ UNCHANGED << kernargs, fixup, null_mem, issue_returns,
                  scheduler_queue >>
  /\ IssueUntouched /\ IssueFrame

\* cmd_fill_buffer_issue / cmd_copy_buffer_issue -> buffer_fill_emplace /
\* buffer_copy_emplace: the packet fields are stored through
\* dispatch_packet = NULL and no header is stored.
CmdBufferIssue(w, outcome) ==
  /\ item[w] = "start"
  /\ w < command_count
  /\ CmdOf(w).type \in { IREE_HAL_AMDGPU_DEVICE_CMD_FILL_BUFFER,
                         IREE_HAL_AMDGPU_DEVICE_CMD_COPY_BUFFER }
  /\ null_mem' = NullStored(outcome, "transfer", 0)
  /\ item' = [ item EXCEPT ![w] = AfterNullStore(outcome, "done") ]
  /\ UNCHANGED << kernargs, fixup, issue_returns,
                  scheduler_queue >>
  /\ IssueUntouched /\ IssueFrame

\* The grid cmd_dispatch_prepare stores: workgroups_ptr[] when the command is
\* INDIRECT_STATIC, the grid of the recorded packet template (1) otherwise.
PreparedGrid(cmd) == IF cmd.indirect_static THEN workgroups ELSE 1

\* cmd_dispatch_issue: cmd_dispatch_prepare stores the packet through
\* dispatch_packet = NULL; cmd_dispatch_commit computes header_type and
\* stores nothing.
CmdDispatchIssue(w, outcome) ==
  /\ item[w] = "start"
  /\ w < command_count
  /\ CmdOf(w).type = IREE_HAL_AMDGPU_DEVICE_CMD_DISPATCH
  /\ null_mem' = NullStored(outcome, "dispatch", PreparedGrid(CmdOf(w)))
  /\ item' = [ item EXCEPT ![w] = AfterNullStore(outcome, "done") ]
  /\ UNCHANGED << kernargs, fixup, issue_returns,
                  scheduler_queue >>
  /\ IssueUntouched /\ IssueFrame

\* cmd_dispatch_indirect_dynamic_issue, first half: cmd_dispatch_prepare for
\* dispatch_index = queue_index + 1.
CmdDispatchIndirectDynamicPrepare(w, outcome) ==
  /\ item[w] = "start"
  /\ w < command_count
  /\ CmdOf(w).type = IREE_HAL_AMDGPU_DEVICE_CMD_DISPATCH_INDIRECT_DYNAMIC
  /\ null_mem' = NullStored(outcome, "dispatch", PreparedGrid(CmdOf(w)))
  /\ item' = [ item EXCEPT ![w] = AfterNullStore(outcome, "update") ]
  /\ UNCHANGED << kernargs, fixup, issue_returns,
                  scheduler_queue >>
  /\ IssueUntouched /\ IssueFrame

\* cmd_dispatch_indirect_dynamic_issue, second half: the update kernargs
\* {cmd, workgroups_ptr, dispatch_packet} are copied to kernarg storage, the
\* update packet is stored through update_packet = NULL, and the function
\* returns without storing the header of the update packet.
CmdDispatchIndirectDynamicUpdate(w, outcome) ==
  /\ item[w] = "update"
  /\ kernargs' = [ kernargs EXCEPT ![w] =
                     [ stored |-> TRUE, workgroups_ptr |-> TRUE,
                       dispatch_packet |-> "NULL" ] ]
  /\ null_mem' = NullStored(outcome, "update", 1)
  /\ item' = [ item EXCEPT ![w] = AfterNullStore(outcome, "done") ]
  /\ UNCHANGED << fixup, issue_returns,
                  scheduler_queue >>
  /\ IssueUntouched /\ IssueFrame

\* What queue_scheduler_enqueue does to the scheduler queue: it tests and sets
\* no pending flag, reserves no queue index (the write index stays), builds
\* the tick packet at tick_packet = NULL and stores no header, so no slot of
\* the queue changes.
queue_scheduler_enqueue(queue) == queue

\* cmd_return_issue: no barrier packet is emplaced; queue_scheduler_enqueue
\* stores the tick packet through tick_packet = NULL and no header.
CmdReturnIssue(w, outcome) ==
  /\ item[w] = "start"
  /\ w < command_count
  /\ CmdOf(w).type = IREE_HAL_AMDGPU_DEVICE_CMD_RETURN
  /\ issue_returns' = issue_returns + 1
  /\ scheduler_queue' = queue_scheduler_enqueue(scheduler_queue)
  /\ null_mem' = NullStored(outcome, "tick", 1)
  /\ item' = [ item EXCEPT ![w] = AfterNullStore(outcome, "done") ]
  /\ UNCHANGED << kernargs, fixup >>
  /\ IssueUntouched /\ IssueFrame

\* The kernel command_buffer_workgroup_count_update, launched with the
\* kernargs the issuer stored for command w: grid_size_x/y/z of
\* dispatch_packet (the NULL the issuer passed) are stored from
\* workgroups_ptr[], then cmd_dispatch_commit stores nothing.
WorkgroupCountUpdate(w, outcome) ==
  /\ kernargs[w].stored
  /\ fixup[w].state = "not_run"
  /\ null_mem' = NullStored(outcome, "grid", workgroups)
  /\ fixup' = [ fixup EXCEPT ![w] =
                  [ state |-> AfterNullStore(outcome, "ran"), grid_read |-> workgroups ] ]
  /\ UNCHANGED << block, exec_packets, item, kernargs, workgroups, issue_returns,
                  scheduler_queue >>
  /\ IssueFrame

\* An earlier dispatch of the command buffer stores a new workgroup count.
WorkgroupsStore(v) ==
  /\ v # workgroups
  /\ \E w \in WorkItems :
       /\ w < command_count
       /\ CmdOf(w).type = IREE_HAL_AMDGPU_DEVICE_CMD_DISPATCH_INDIRECT_DYNAMIC
       /\ fixup[w].state = "not_run"
  /\ workgroups' = v
  /\ UNCHANGED << block, exec_packets, item, kernargs, fixup, null_mem, issue_returns,
                  scheduler_queue >>
  /\ IssueFrame

NextIssue ==
  \/ \E w \in WorkItems : IssueBlockOutOfRange(w)
  \/ \E w \in WorkItems : IssueBlockDefault(w)
  \/ \E w \in WorkItems : CmdDebugGroupIssue(w)
  \/ \E w \in WorkItems : CmdEmptyIssue(w)
  \/ \E w \in WorkItems, o \in NullStoreOutcomes : CmdBufferIssue(w, o)
  \/ \E w \in WorkItems, o \in NullStoreOutcomes : CmdDispatchIssue(w, o)
  \/ \E w \in WorkItems, o \in NullStoreOutcomes : CmdDispatchIndirectDynamicPrepare(w, o)
  \/ \E w \in WorkItems, o \in NullStoreOutcomes : CmdDispatchIndirectDynamicUpdate(w, o)
  \/ \E w \in WorkItems, o \in NullStoreOutcomes : CmdReturnIssue(w, o)
  \/ \E w \in WorkItems, o \in NullStoreOutcomes : WorkgroupCountUpdate(w, o)
  \/ \E v \in WorkgroupCounts : WorkgroupsStore(v)

\* The host channel at rest.
HostUnused == InitHost

BlockIssueInit == InitIssue /\ HostUnused /\ SchedUnused /\ TraceUnused /\ ResolveUnused
                     /\ CommitUnused /\ QueryUnused /\ MutexUnused

SpecIssue == BlockIssueInit /\ [][NextIssue]_vars


IsIndirectDynamic(w) ==
  w < command_count /\ CmdOf(w).type = IREE_HAL_AMDGPU_DEVICE_CMD_DISPATCH_INDIRECT_DYNAMIC

\* Every work-item has returned and every fixup dispatch has run.
IssueComplete ==
  \A w \in WorkItems :
    /\ item[w] = "done"
    /\ IsIndirectDynamic(w) => fixup[w].state = "ran"

PublishedSlots ==
  { q \in DOMAIN exec_packets : exec_packets[q].header # IREE_HSA_PACKET_TYPE_INVALID }

(***************************************************************************)
(* C3.  Once issue_block has run over all commands of a block (any types,  *)
(* no-op and unknown ones included) and the fixup dispatches have run, the *)
(* number of published packets equals max_packet_count and no slot of      *)
(* [base_queue_index, base_queue_index + max_packet_count) is INVALID.     *)
(***************************************************************************)
C3_AllReservedPacketsPublished ==
  IssueComplete =>
    /\ Cardinality(PublishedSlots) = block.max_packet_count
    /\ \A q \in DOMAIN exec_packets :
         exec_packets[q].header # IREE_HSA_PACKET_TYPE_INVALID

(***************************************************************************)
(* C4.  For a DISPATCH_INDIRECT_DYNAMIC command at slot k: the body of the *)
(* dispatch packet at k+1 is written before the fixup packet at k is       *)
(* published; the issuer publishes k when it returns and never publishes   *)
(* k+1; k+1 leaves INVALID only through workgroup_count_update, as         *)
(* KERNEL_DISPATCH and with the grid that kernel read.                     *)
(***************************************************************************)
C4_FixupPublishesDispatch ==
  \A w \in WorkItems :
    IsIndirectDynamic(w) =>
      LET k == QueueIndexOf(w) IN
      /\ item[w] \in { "update", "done" } => exec_packets[k + 1].body = "dispatch"
      /\ item[w] = "done" =>
           exec_packets[k].header = IREE_HSA_PACKET_TYPE_KERNEL_DISPATCH
      /\ item[w] # "done" => exec_packets[k].header = IREE_HSA_PACKET_TYPE_INVALID
      /\ exec_packets[k + 1].header # IREE_HSA_PACKET_TYPE_INVALID =>
           /\ fixup[w].state = "ran"
           /\ exec_packets[k + 1].grid = fixup[w].grid_read
      /\ fixup[w].state = "ran" =>
           /\ exec_packets[k + 1].header = IREE_HSA_PACKET_TYPE_KERNEL_DISPATCH
           /\ exec_packets[k + 1].grid = fixup[w].grid_read


(***************************************************************************)
(* Queue scheduler (scheduler.c).                                          *)
(***************************************************************************)
\* Queue entries submitted over a run.
MaxEntries == 3
\* Largest semaphore payload.
MaxPayload == 2

NULL == 0

Entries == 1 .. MaxEntries

Semaphores == { "S", "T" }

Payloads == 1 .. MaxPayload

\* One element of a wait_semaphore_list.
WaitTuples == [ semaphore : Semaphores, payload : Payloads ]

\* The wait lists an entry is submitted with: no wait, one wait, or a wait
\* on each of the two semaphores.
WaitLists ==
  { << >> } \cup { << w >> : w \in WaitTuples }
            \cup { << w1, w2 >> : w1 \in { w \in WaitTuples : w.semaphore = "S" },
                                  w2 \in { w \in WaitTuples : w.semaphore = "T" } }

Min(a, b) == IF a <= b THEN a ELSE b

EmptyList == [ head |-> NULL, tail |-> NULL ]

\* iree_hal_amdgpu_device_queue_list_append.  With a non-empty list whose
\* tail is NULL, list->tail->list_next = entry is a store through NULL: the
\* kernel faults, or the store goes astray and tail is set all the same.
queue_list_append(list, next, entry, outcome) ==
  LET n1 == [ next EXCEPT ![entry] = NULL ] IN
  IF list.head = NULL
    THEN [ list |-> [ head |-> entry, tail |-> entry ], next |-> n1, fault |-> FALSE ]
  ELSE IF list.tail = NULL
    THEN IF outcome = "fault"
           THEN [ list |-> list, next |-> n1, fault |-> TRUE ]
           ELSE [ list |-> [ head |-> list.head, tail |-> entry ], next |-> n1,
                  fault |-> FALSE ]
  ELSE [ list |-> [ head |-> list.head, tail |-> entry ],
         next |-> [ n1 EXCEPT ![list.tail] = entry ], fault |-> FALSE ]

\* The while loop of iree_hal_amdgpu_device_queue_list_insert.
RECURSIVE queue_list_insert_walk(_, _, _, _, _, _)
queue_list_insert_walk(list, next, epoch, entry, list_prev, list_cursor) ==
  IF list_cursor = NULL
    THEN [ list |-> list, next |-> next ]
  ELSE IF list_cursor = list.tail
    THEN [ list |-> [ head |-> list.head, tail |-> entry ],
           next |-> [ next EXCEPT ![list_cursor] = entry ] ]
  ELSE IF epoch[list_cursor] > epoch[entry]
    THEN IF list_prev # NULL
           THEN [ list |-> list,
                  next |-> [ next EXCEPT
                               ![entry] = IF next[list_prev] # NULL
                                            THEN next[list_prev] ELSE @,
                               ![list_prev] = entry ] ]
           ELSE [ list |-> list, next |-> next ]
  ELSE queue_list_insert_walk(list, next, epoch, entry, list_cursor, next[list_cursor])

\* iree_hal_amdgpu_device_queue_list_insert
queue_list_insert(list, next, epoch, entry) ==
  IF list.head = NULL
    THEN [ list |-> [ head |-> entry, tail |-> entry ], next |-> next ]
    ELSE queue_list_insert_walk(list, next, epoch, entry, NULL, list.head)

\* The entries reachable from `from` through list_next, in list order.
RECURSIVE ListSeq(_, _, _)
ListSeq(from, next, fuel) ==
  IF from = NULL \/ fuel = 0 THEN << >>
  ELSE << from >> \o ListSeq(next[from], next, fuel - 1)

SeqToSet(q) == { q[i] : i \in DOMAIN q }

OnWaitList == SeqToSet(ListSeq(wait_list.head, entry_next, MaxEntries))

OnRunList == SeqToSet(ListSeq(run_list.head, entry_next, MaxEntries))

InMailbox == SeqToSet(mailbox)

Issued == SeqToSet(issued)

Submitted == { e \in Entries : submitted[e].done }

\* Entries the scheduler took out of the mailbox.
Accepted == Submitted \ InMailbox

(***************************************************************************)
(* Wake pool and semaphore wake list, as the specification describes them  *)
(* (their code is not part of the sources).                                *)
(***************************************************************************)
NoMinimum == MaxPayload + 1

FreeWakeEntry == [ reserved |-> FALSE, minimum_value |-> NoMinimum,
                   last_observed_value |-> 0 ]

\* wake_pool_reserve: the entry registered for the semaphore, or a fresh one.
wake_pool_reserve(pool, s) ==
  IF pool[s].reserved THEN pool
  ELSE [ pool EXCEPT ![s] = [ FreeWakeEntry EXCEPT !.reserved = TRUE ] ]

\* wake_pool_reserve finds no entry: the semaphore has none and every entry of
\* the pool is reserved for another semaphore.
wake_pool_exhausted(pool, capacity, s) ==
  /\ ~pool[s].reserved
  /\ Cardinality({ t \in Semaphores : pool[t].reserved }) >= capacity

\* semaphore_update_wait returns whether the payload is still to be reached...
semaphore_is_waiting(s, payload) == semaphore_payload[s] < payload

\* ... and, if so, enrolls the entry in the wake list of the semaphore for
\* the smaller of its minimum and the payload.
semaphore_update_wait(pool, s, payload) ==
  IF semaphore_is_waiting(s, payload)
    THEN [ pool EXCEPT ![s].minimum_value = Min(@, payload) ]
    ELSE pool

\* wake_pool_release frees the entry (and with it the wake-list enrolment).
wake_pool_release(pool, s) == [ pool EXCEPT ![s] = FreeWakeEntry ]

IdleTick == [ pc |-> "idle", list_prev |-> NULL, list_cursor |-> NULL,
              list_next |-> NULL, run_entry |-> NULL, count |-> 0,
              run_before |-> 0, ready |-> 0, moved |-> 0, blocked |-> {},
              enrolled |-> {}, order |-> << >>, quiet |-> FALSE,
              self_wake |-> FALSE ]

\* Entries of the wake pool when it is smaller than the set of semaphores.
SmallWakePoolCapacity == 1

NoPoolFailure == [ failed |-> FALSE, issued |-> 0 ]

InitSchedWith(capacity) ==
  /\ wake_pool_capacity = capacity
  /\ wake_pool_failure = NoPoolFailure
  /\ mailbox = << >>
  /\ entry_waits = [ e \in Entries |-> << >> ]
  /\ entry_epoch = [ e \in Entries |-> 0 ]
  /\ entry_next = [ e \in Entries |-> NULL ]
  /\ wait_list = EmptyList
  /\ run_list = EmptyList
  /\ sched_epoch = 0
  /\ semaphore_payload = [ s \in Semaphores |-> 0 ]
  /\ wake_pool = [ s \in Semaphores |-> FreeWakeEntry ]
  /\ tick_pending = FALSE
  /\ tick = IdleTick
  /\ issued = << >>
  /\ sched_fault = FALSE
  /\ submitted = [ e \in Entries |-> [ done |-> FALSE, waits |-> << >> ] ]

\* A scheduler whose wake pool has an entry for every semaphore.
InitSched == InitSchedWith(Cardinality(Semaphores))

\* A scheduler whose wake pool is smaller than the set of semaphores waited on.
InitSchedSmallPool == InitSchedWith(SmallWakePoolCapacity)

\* A producer inserts the next entry into the mailbox and enqueues a tick.
Submit(e, waits) ==
  /\ ~submitted[e].done
  /\ \A d \in Entries : d < e => submitted[d].done
  /\ submitted' = [ submitted EXCEPT ![e] = [ done |-> TRUE, waits |-> waits ] ]
  /\ entry_waits' = [ entry_waits EXCEPT ![e] = waits ]
  /\ mailbox' = Append(mailbox, e)
  /\ tick_pending' = TRUE
  /\ UNCHANGED << entry_epoch, entry_next, wait_list, run_list, sched_epoch,
                  semaphore_payload, wake_pool, tick, issued, sched_fault >>
  /\ PoolUntouched
  /\ SchedFrame

\* A producer advances a semaphore, walks its wake list and, for an entry
\* whose minimum_value is reached, records the value and enqueues a tick of
\* the owning scheduler.
SemaphoreSignal(s, v) ==
  /\ v > semaphore_payload[s]
  /\ semaphore_payload' = [ semaphore_payload EXCEPT ![s] = v ]
  /\ IF wake_pool[s].reserved /\ wake_pool[s].minimum_value <= v
       THEN /\ wake_pool' = [ wake_pool EXCEPT ![s].last_observed_value = v ]
            /\ tick_pending' = TRUE
       ELSE UNCHANGED << wake_pool, tick_pending >>
  /\ UNCHANGED << mailbox, entry_waits, entry_epoch, entry_next, wait_list, run_list,
                  sched_epoch, tick, issued, sched_fault, submitted >>
  /\ PoolUntouched
  /\ SchedFrame


\* accept_incoming as the tick algorithm describes it (the function in the
\* sources is a stub): the mailbox is drained in order, every entry gets the
\* next epoch, an entry without waits is inserted into the run list and one
\* with waits is appended to the wait list.
RECURSIVE accept_incoming(_, _, _)
accept_incoming(mb, st, outcome) ==
  IF mb = << >> \/ st.fault
    THEN [ st EXCEPT !.mailbox = mb ]
    ELSE LET e  == Head(mb)
             ep == [ st.epoch EXCEPT ![e] = st.counter ]
         IN  IF entry_waits[e] = << >>
               THEN LET r == queue_list_insert(st.rl, st.next, ep, e)
                    IN  accept_incoming(Tail(mb),
                          [ st EXCEPT !.rl = r.list, !.next = r.next, !.epoch = ep,
                                      !.counter = @ + 1, !.ready = @ + 1 ],
                          outcome)
               ELSE LET r == queue_list_append(st.wl, st.next, e, outcome)
                    IN  accept_incoming(Tail(mb),
                          [ st EXCEPT !.wl = r.list, !.next = r.next, !.epoch = ep,
                                      !.counter = @ + 1, !.fault = r.fault ],
                          outcome)

\* The test of the last wait, taken as passed whatever the count.
IsLastWaitAlways(ws) == TRUE

\* if (semaphore_list->count == 1)
IsLastWait(ws) == Len(ws) = 1

\* The do-while of check_wait_list over the waits of one entry: reserve,
\* update_wait; blocked on the first wait not yet satisfied; a satisfied wait
\* releases the wake-pool entry and is replaced by the last wait.
\* The result of wake_pool_reserve is not tested: when the pool had no entry
\* (failed), update_wait and release are handed a null wake_list_entry and
\* the pool stays as it is; null_enrol tells that update_wait had to enrol
\* through that null entry.
RECURSIVE resolve_waits(_, _, _)
resolve_waits(ws, pool, capacity) ==
  LET s    == ws[1].semaphore
      none == wake_pool_exhausted(pool, capacity, s)
      p1   == IF none THEN pool ELSE wake_pool_reserve(pool, s)
      p2   == IF none THEN pool ELSE wake_pool_release(p1, s)
  IN  IF semaphore_is_waiting(s, ws[1].payload)
        THEN [ waits |-> ws,
               pool |-> IF none THEN pool
                        ELSE semaphore_update_wait(p1, s, ws[1].payload),
               blocked |-> TRUE, failed |-> none, null_enrol |-> none ]
      ELSE IF IsLastWait(ws)
        THEN [ waits |-> ws, pool |-> p2, blocked |-> FALSE, failed |-> none,
               null_enrol |-> FALSE ]
      ELSE LET r == resolve_waits(<< ws[Len(ws)] >> \o SubSeq(ws, 2, Len(ws) - 1),
                                  p2, capacity)
           IN  [ r EXCEPT !.failed = @ \/ none ]

\* The move to the run list without the unlink.
wait_list_unlink_skipped(list, next, list_prev, list_cursor, list_next) ==
  [ list |-> list, next |-> next ]

\* Lines 284-292 of check_wait_list: the entry leaves the wait list.
wait_list_unlink(list, next, list_prev, list_cursor, list_next) ==
  LET l1 == IF list_prev # NULL THEN list ELSE [ list EXCEPT !.head = list_next ]
      n1 == IF list_prev # NULL THEN [ next EXCEPT ![list_prev] = list_next ] ELSE next
      l2 == IF list_next = NULL THEN [ l1 EXCEPT !.tail = NULL ] ELSE l1
  IN  [ list |-> l2, next |-> [ n1 EXCEPT ![list_cursor] = NULL ] ]

\* Where the tick goes once check_wait_list has list_cursor = cursor: on
\* with the loop, or to the run-list loop starting at run_list.head.
AfterCheck(t, cursor, rl) ==
  IF cursor # NULL
    THEN [ t EXCEPT !.pc = "check", !.list_cursor = cursor, !.list_next = NULL ]
    ELSE [ t EXCEPT !.pc = "drain", !.list_cursor = NULL, !.list_next = NULL,
                    !.run_entry = rl.head ]

\* No wait of an entry on the wait list has its payload reached.
NoWaitSatisfiable ==
  \A e \in OnWaitList : \A i \in DOMAIN entry_waits[e] :
    semaphore_is_waiting(entry_waits[e][i].semaphore, entry_waits[e][i].payload)

\* The tick finds nothing to do: nothing in the mailbox, nothing on the run
\* list, no wait that can be resolved, no trace bytes reserved since the last
\* commit.
NothingToDo ==
  /\ mailbox = << >>
  /\ run_list.head = NULL
  /\ NoWaitSatisfiable
  /\ trace_buffer.write_reserve_offset = trace_buffer.write_commit_offset

\* Start of a tick: the tick dispatch leaves the scheduler queue,
\* accept_incoming runs and check_wait_list starts at wait_list.head.
\* tick.quiet records whether the tick started with nothing to do.
TickAccept(outcome) ==
  /\ tick.pc = "idle"
  /\ tick_pending
  /\ ~sched_fault
  /\ tick_pending' = FALSE
  /\ LET st == accept_incoming(mailbox,
                 [ wl |-> wait_list, rl |-> run_list, next |-> entry_next,
                   epoch |-> entry_epoch, counter |-> sched_epoch, ready |-> 0,
                   fault |-> FALSE, mailbox |-> mailbox ],
                 outcome)
     IN  /\ mailbox' = st.mailbox
         /\ wait_list' = st.wl
         /\ run_list' = st.rl
         /\ entry_next' = st.next
         /\ entry_epoch' = st.epoch
         /\ sched_epoch' = st.counter
         /\ sched_fault' = st.fault
         /\ tick' = IF st.fault
                      THEN [ IdleTick EXCEPT !.count = 1, !.quiet = NothingToDo ]
                      ELSE AfterCheck([ IdleTick EXCEPT !.count = 1,
                                          !.quiet = NothingToDo,
                                          !.run_before = Len(ListSeq(run_list.head,
                                                             entry_next, MaxEntries)),
                                          !.ready = st.ready ],
                                      st.wl.head, st.rl)
  /\ UNCHANGED << entry_waits, semaphore_payload, wake_pool, issued, submitted >>
  /\ PoolUntouched
  /\ SchedFrame


\* One iteration of the while loop of check_wait_list, up to the call of
\* queue_list_insert: the waits of list_cursor are resolved; a blocked entry
\* becomes list_prev, a ready one is unlinked from the wait list.
TickCheckEntry(outcome) ==
  /\ tick.pc = "check"
  /\ LET e         == tick.list_cursor
         list_next == entry_next[e]
         r         == resolve_waits(entry_waits[e], wake_pool, wake_pool_capacity)
         head_wait == r.waits[1]
     IN  /\ entry_waits' = [ entry_waits EXCEPT ![e] = r.waits ]
         /\ wake_pool' = r.pool
         /\ wake_pool_failure' =
              IF r.failed /\ ~wake_pool_failure.failed
                THEN [ failed |-> TRUE, issued |-> Len(issued) ]
                ELSE wake_pool_failure
         /\ sched_fault' = (r.null_enrol /\ outcome = "fault")
         /\ IF r.null_enrol /\ outcome = "fault"
              THEN /\ tick' = [ tick EXCEPT !.pc = "idle" ]
                   /\ UNCHANGED << wait_list, entry_next >>
            ELSE IF r.blocked
              THEN /\ tick' = AfterCheck(
                        [ tick EXCEPT
                            !.list_prev = e,
                            !.blocked = @ \cup { e },
                            !.enrolled =
                              IF /\ r.pool[head_wait.semaphore].reserved
                                 /\ r.pool[head_wait.semaphore].minimum_value
                                      <= head_wait.payload
                                THEN @ \cup { e } ELSE @ ],
                        list_next, run_list)
                   /\ UNCHANGED << wait_list, entry_next >>
              ELSE LET u == wait_list_unlink(wait_list, entry_next, tick.list_prev,
                                             e, list_next)
                   IN  /\ wait_list' = u.list
                       /\ entry_next' = u.next
                       /\ tick' = [ tick EXCEPT !.pc = "insert",
                                                !.list_next = list_next ]
  /\ UNCHANGED << mailbox, entry_epoch, run_list, sched_epoch, semaphore_payload,
                  tick_pending, issued, submitted, wake_pool_capacity >>
  /\ SchedFrame

\* queue_list_insert(&scheduler->run_list, list_cursor); list_cursor = list_next
TickInsertRun ==
  /\ tick.pc = "insert"
  /\ LET r == queue_list_insert(run_list, entry_next, entry_epoch, tick.list_cursor)
     IN  /\ run_list' = r.list
         /\ entry_next' = r.next
         /\ tick' = AfterCheck([ tick EXCEPT !.moved = @ + 1 ], tick.list_next, r.list)
  /\ UNCHANGED << mailbox, entry_waits, entry_epoch, wait_list, sched_epoch,
                  semaphore_payload, wake_pool, tick_pending, issued, sched_fault,
                  submitted >>
  /\ PoolUntouched
  /\ SchedFrame

\* wake_set_flush: posts to the targets queue_issue collected and returns
\* whether one of them was the current scheduler.
wake_set_flush(self_is_target) == self_is_target

\* One iteration of the run-list loop: queue_issue(run_entry),
\* self_wake = wake_set_flush(&scheduler->wake_set) || self_wake,
\* run_entry = run_entry->list_next.
TickIssue(self_is_target) ==
  /\ tick.pc = "drain"
  /\ tick.run_entry # NULL
  /\ issued' = Append(issued, tick.run_entry)
  /\ tick' = [ tick EXCEPT !.order = Append(@, tick.run_entry),
                           !.run_entry = entry_next[tick.run_entry],
                           !.self_wake = wake_set_flush(self_is_target) \/ @ ]
  /\ UNCHANGED << mailbox, entry_waits, entry_epoch, entry_next, wait_list, run_list,
                  sched_epoch, semaphore_payload, wake_pool, tick_pending, sched_fault,
                  submitted >>
  /\ PoolUntouched
  /\ SchedFrame

\* End of the tick: run_list.head = run_list.tail = NULL; trace_commit_range
\* publishes the bytes reserved so far (nothing is posted to the host when it
\* returns true); if (self_wake) queue_scheduler_enqueue(scheduler,
\* WORK_AVAILABLE, 0), which stores the tick packet through tick_packet = NULL
\* and publishes nothing.
TickFinish(outcome) ==
  /\ tick.pc = "drain"
  /\ tick.run_entry = NULL
  /\ run_list' = EmptyList
  /\ trace_buffer' = [ trace_buffer EXCEPT !.write_commit_offset =
                         trace_commit_value(trace_buffer.write_reserve_offset) ]
  /\ scheduler_queue' = IF tick.self_wake
                           THEN queue_scheduler_enqueue(scheduler_queue)
                           ELSE scheduler_queue
  /\ sched_fault' = (tick.self_wake /\ outcome = "fault")
  /\ tick' = [ tick EXCEPT !.pc = "idle", !.self_wake = FALSE ]
  /\ UNCHANGED << mailbox, entry_waits, entry_epoch, entry_next, wait_list,
                  sched_epoch, semaphore_payload, wake_pool, tick_pending, issued,
                  submitted >>
  /\ PoolUntouched
  /\ UNCHANGED << block, exec_packets, item, kernargs, workgroups, fixup, null_mem,
                  issue_returns >>
  /\ UNCHANGED << host_vars, trace_writer, trace_commit, resolve_vars, commit_vars, query_vars, mutex_vars >>

NextSched ==
  \/ \E e \in Entries, waits \in WaitLists : Submit(e, waits)
  \/ \E s \in Semaphores, v \in Payloads : SemaphoreSignal(s, v)
  \/ \E o \in NullStoreOutcomes : TickAccept(o)
  \/ \E o \in NullStoreOutcomes : TickCheckEntry(o)
  \/ TickInsertRun
  \/ \E self_is_target \in BOOLEAN : TickIssue(self_is_target)
  \/ \E o \in NullStoreOutcomes : TickFinish(o)

SchedulerInit == InitSched /\ HostUnused /\ IssueUnused /\ TraceUnused /\ ResolveUnused
                     /\ CommitUnused /\ QueryUnused /\ MutexUnused

SpecSched == SchedulerInit /\ [][NextSched]_vars

SchedulerSmallPoolInit == InitSchedSmallPool /\ HostUnused /\ IssueUnused /\ TraceUnused
                            /\ ResolveUnused /\ CommitUnused /\ QueryUnused /\ MutexUnused

SpecSchedSmallPool == SchedulerSmallPoolInit /\ [][NextSched]_vars


\* A tick has run to its end and none is in flight.
TickDone == tick.pc = "idle" /\ tick.count > 0 /\ ~sched_fault

IssuedThisTick == SeqToSet(tick.order)

WaitSatisfied(w) == semaphore_payload[w.semaphore] >= w.payload

\* Issued entries the run list no longer holds.
Done == Issued \ OnRunList

SetMin(S) == CHOOSE x \in S : \A y \in S : x <= y

AllWaitsReached(e) ==
  \A i \in DOMAIN submitted[e].waits : WaitSatisfied(submitted[e].waits[i])

WakeRegistered(e) ==
  LET w == entry_waits[e][1] IN
  /\ wake_pool[w.semaphore].reserved
  /\ wake_pool[w.semaphore].minimum_value <= w.payload

ReadyEntriesIssued ==
  (TickDone /\ ~tick_pending) =>
    \A e \in Accepted : AllWaitsReached(e) => e \in Issued

BlockedEntriesRegistered ==
  TickDone =>
    \A e \in Accepted \ Issued :
      /\ e \in OnWaitList
      /\ tick_pending \/ WakeRegistered(e)

TicksQueued ==
  { q \in DOMAIN scheduler_queue.headers :
      scheduler_queue.headers[q] = IREE_HSA_PACKET_TYPE_KERNEL_DISPATCH }

(***************************************************************************)
(* C11.  At most one tick is queued or in flight: the calls of             *)
(* queue_scheduler_enqueue made while a tick is pending (here by the       *)
(* RETURN commands of a block, before any tick ran) are merged, so that    *)
(* after one or more calls exactly one tick dispatch is on the scheduler   *)
(* queue, and never more than one.                                         *)
(***************************************************************************)
C11_EnqueueBurstIsOneTick ==
  /\ Cardinality(TicksQueued) <= 1
  /\ issue_returns > 0 => Cardinality(TicksQueued) = 1


(***************************************************************************)
(* Trace ring buffer (tracing.c).                                          *)
(***************************************************************************)
\* trace_buffer->ringbuffer_capacity is 2^TraceCapacityLog2 bytes.
TraceCapacityLog2 == 1
\* Largest length of one reservation, in bytes.
MaxTraceLength == 3
\* Bytes reserved over a run.
MaxTraceBytes == 5
\* Calls of trace_commit_range over a run.
MaxTraceCommits == 3

ringbuffer_capacity == 2 ^ TraceCapacityLog2

TraceLengths == 1 .. MaxTraceLength

\* write_offset + length - read_commit_offset >= ringbuffer_capacity, in
\* uint64_t: when read_commit_offset is the larger the difference wraps to a
\* value near 2^64, which is not below the capacity.
trace_lacks_capacity(write_offset, length, read_commit_offset) ==
  IF write_offset + length >= read_commit_offset
    THEN write_offset + length - read_commit_offset >= ringbuffer_capacity
    ELSE TRUE

\* Address of the first byte of the ring.
ringbuffer_base == 16

\* iree_hal_amdgpu_device_trace_buffer_mask: the capacity is a power of two.
trace_buffer_mask == ringbuffer_capacity - 1

\* A pointer computed without the mask.
trace_packet_ptr_unmasked(write_offset) == ringbuffer_base + write_offset

\* packet_ptr = ringbuffer_base + (write_offset & mask)
trace_packet_ptr(write_offset) ==
  ringbuffer_base + BitAnd(write_offset, trace_buffer_mask)

InitTrace == TraceUnused

\* trace_reserve_range, the atomic fetch_add on write_reserve_offset.
TraceReserveFetchAdd(w, length) ==
  /\ trace_writer[w].pc = "idle"
  /\ trace_buffer.write_reserve_offset + length <= MaxTraceBytes
  /\ trace_writer' = [ trace_writer EXCEPT ![w] =
                         [ @ EXCEPT !.pc = "reserved",
                                    !.write_offset = trace_buffer.write_reserve_offset,
                                    !.length = length,
                                    !.ranges = Append(@,
                                      [ offset |-> trace_buffer.write_reserve_offset,
                                        length |-> length ]) ] ]
  /\ trace_buffer' = [ trace_buffer EXCEPT !.write_reserve_offset = @ + length ]
  /\ trace_commit' = [ trace_commit EXCEPT !.reserved_since_load = TRUE ]
  /\ TraceFrame

\* trace_reserve_range from the capacity test on: the `if` yields once when
\* the range does not fit and the function returns packet_ptr all the same.
TraceReserveReturn(w) ==
  /\ trace_writer[w].pc = "reserved"
  /\ LET me == trace_writer[w] IN
     trace_writer' = [ trace_writer EXCEPT ![w] =
       [ pc |-> "idle", write_offset |-> 0, length |-> 0,
         fits |-> ~trace_lacks_capacity(me.write_offset, me.length,
                                        trace_buffer.read_commit_offset),
         ranges |-> me.ranges,
         returned_offset |-> me.write_offset,
         packet_ptr |-> trace_packet_ptr(me.write_offset) ] ]
  /\ UNCHANGED << trace_buffer, trace_commit >>
  /\ TraceFrame


\* The return of trace_commit_range, taken as true whatever the offsets.
trace_commit_notifies_always(last_reserve_offset, last_commit_offset) == TRUE

\* return last_reserve_offset != last_commit_offset
trace_commit_notifies(last_reserve_offset, last_commit_offset) ==
  last_reserve_offset # last_commit_offset

\* trace_commit_range, the atomic load of write_reserve_offset.
TraceCommitLoad ==
  /\ trace_commit.pc = "idle"
  /\ trace_commit.calls < MaxTraceCommits
  /\ trace_commit' = [ trace_commit EXCEPT
                         !.pc = "loaded",
                         !.last_reserve_offset = trace_buffer.write_reserve_offset,
                         !.batch = trace_commit.reserved_since_load,
                         !.reserved_since_load = FALSE ]
  /\ UNCHANGED << trace_buffer, trace_writer >>
  /\ TraceFrame

\* trace_commit_range, the atomic exchange on write_commit_offset and the
\* return.  The caller is the end of the scheduler tick, whose
\* `if (trace_commit_range(..))` has an empty body: the host channel is left
\* alone whatever is returned.
TraceCommitExchange ==
  /\ trace_commit.pc = "loaded"
  /\ LET last_commit_offset == trace_buffer.write_commit_offset
         r == trace_commit_notifies(trace_commit.last_reserve_offset,
                                    last_commit_offset)
     IN  /\ trace_buffer' = [ trace_buffer EXCEPT !.write_commit_offset =
                                trace_commit_value(trace_commit.last_reserve_offset) ]
         /\ trace_commit' = [ trace_commit EXCEPT
                                !.pc = "idle",
                                !.last_commit_offset = last_commit_offset,
                                !.result = r,
                                !.calls = @ + 1,
                                !.notified = IF r THEN @ + 1 ELSE @ ]
  /\ UNCHANGED trace_writer
  /\ TraceFrame

\* The host reads the committed events and advances read_commit_offset, at
\* most up to write_commit_offset.
HostTraceFlush(offset) ==
  /\ offset > trace_buffer.read_commit_offset
  /\ offset <= trace_buffer.write_commit_offset
  /\ trace_buffer' = [ trace_buffer EXCEPT !.read_commit_offset = offset ]
  /\ UNCHANGED << trace_writer, trace_commit >>
  /\ TraceFrame

NextTrace ==
  \/ \E w \in TraceWriters, length \in TraceLengths : TraceReserveFetchAdd(w, length)
  \/ \E w \in TraceWriters : TraceReserveReturn(w)
  \/ TraceCommitLoad
  \/ TraceCommitExchange
  \/ \E offset \in 1 .. MaxTraceBytes : HostTraceFlush(offset)

TraceBufferInit == InitTrace /\ HostUnused /\ IssueUnused /\ SchedUnused /\ ResolveUnused
                     /\ CommitUnused /\ QueryUnused /\ MutexUnused

SpecTrace == TraceBufferInit /\ [][NextTrace]_vars

(***************************************************************************)
(* C12.  write_reserve_offset - read_commit_offset <= capacity in every    *)
(* reachable state of the trace buffer, for reserve_range calls of any     *)
(* lengths interleaved with commit_range and the host's reads.             *)
(***************************************************************************)
C12_ReserveWithinCapacity ==
  trace_buffer.write_reserve_offset - trace_buffer.read_commit_offset
    <= ringbuffer_capacity

(***************************************************************************)
(* C13.  write_reserve_offset >= write_commit_offset >= read_commit_offset *)
(* in every reachable state, and write_commit_offset never decreases (the  *)
(* value an exchange replaced is never above the one it stored), with      *)
(* reserve_range called from several work-items, commit_range called by    *)
(* the tick, and the host advancing read_commit_offset up to               *)
(* write_commit_offset.                                                    *)
(***************************************************************************)
C13_OffsetsOrdered ==
  /\ trace_buffer.write_reserve_offset >= trace_buffer.write_commit_offset
  /\ trace_buffer.write_commit_offset >= trace_buffer.read_commit_offset
  /\ (trace_commit.pc = "idle" /\ trace_commit.calls > 0) =>
       trace_commit.last_commit_offset <= trace_buffer.write_commit_offset

\* A second commit has moved write_commit_offset forward, the host has read
\* part of what was committed and a reservation made since is not committed.
C13_Witness ==
  /\ trace_commit.pc = "idle"
  /\ trace_commit.calls >= 2
  /\ trace_commit.last_commit_offset > 0
  /\ trace_buffer.write_commit_offset > trace_commit.last_commit_offset
  /\ trace_buffer.write_reserve_offset > trace_buffer.write_commit_offset
  /\ trace_buffer.read_commit_offset > 0
  /\ trace_buffer.read_commit_offset < trace_buffer.write_commit_offset

(***************************************************************************)
(* C14.  commit_range stores the write_reserve_offset it loaded into       *)
(* write_commit_offset and returns true iff that value differs from the    *)
(* write_commit_offset it replaced; it returns true exactly when bytes     *)
(* were reserved since the previous commit loaded the reserve offset, so a *)
(* commit with no reserve_range in between returns false and leaves the    *)
(* offsets as they were.                                                   *)
(***************************************************************************)
C14_CommitReturnsTrueOncePerBatch ==
  (trace_commit.pc = "idle" /\ trace_commit.calls > 0) =>
    /\ trace_buffer.write_commit_offset = trace_commit.last_reserve_offset
    /\ trace_commit.result =
         (trace_commit.last_reserve_offset # trace_commit.last_commit_offset)
    /\ trace_commit.result = trace_commit.batch
    /\ ~trace_commit.result =>
         trace_buffer.write_commit_offset = trace_commit.last_commit_offset

\* A commit returned true for a batch, and the commit after it, with no
\* reservation in between, has returned false.
C14_Witness ==
  /\ trace_commit.pc = "idle"
  /\ trace_commit.calls >= 2
  /\ trace_commit.notified >= 1
  /\ ~trace_commit.result
  /\ trace_buffer.write_commit_offset > 0


\* The slots of the host queue that hold a published POST_ERROR packet.
PostedErrors ==
  { q \in DOMAIN host_packets :
      /\ HeaderTypeOf(host_packets[q].header) = IREE_HSA_PACKET_TYPE_AGENT_DISPATCH
      /\ host_packets[q].header =
           HostPostHeaderWord(IREE_HAL_AMDGPU_DEVICE_HOST_CALL_POST_ERROR) }

\* A tick whose reservation the wake pool could not serve has posted the
\* error to the host by the time it ends.
ExhaustionPosted ==
  (TickDone /\ wake_pool_failure.failed) => PostedErrors # {}

\* Nothing is issued once a reservation has failed.
NothingIssuedAfterExhaustion ==
  wake_pool_failure.failed => Len(issued) = wake_pool_failure.issued

\* The failed reservation is not used: the entry it was made for is not
\* left counted as blocked on a wake that was never registered.
FailedReservationUnused ==
  (TickDone /\ wake_pool_failure.failed) => tick.blocked \subseteq tick.enrolled

C16_PostErrorLatches ==
  /\ Cardinality(PostedErrors) <= 1
  /\ \A q \in PostedErrors, r \in HostSlots :
       SlotTyped(r) =>
         PacketIdOfTag(host_publisher[r]) <= PacketIdOfTag(host_publisher[q])


\* Work-item w was given a command whose type is none of the defined ones.
HasUnknownType(w) == w < command_count /\ CmdOf(w).type = UnknownCmdType

(***************************************************************************)
(* C17.  When issue_block has handled a command whose header.type is not a *)
(* defined command type, a POST_ERROR (MALFORMED, cmd_type, ordinal) is on *)
(* the host queue; the command is not silently skipped.                    *)
(***************************************************************************)
C17_UnknownCommandPostsError ==
  \A w \in WorkItems :
    (HasUnknownType(w) /\ item[w] = "done") => PostedErrors # {}


(***************************************************************************)
(* Buffer references (buffer.h, buffer.c).                                 *)
(***************************************************************************)
IREE_HAL_AMDGPU_DEVICE_BUFFER_TYPE_PTR == 0
IREE_HAL_AMDGPU_DEVICE_BUFFER_TYPE_HANDLE == 1
IREE_HAL_AMDGPU_DEVICE_BUFFER_TYPE_SLOT == 2

\* Largest number of entries of a binding table.
MaxBindings == 2
\* Largest slot ordinal a recorded reference names.
MaxSlot == 2
\* Largest offset of a reference or of a binding.
MaxRefOffset == 1
\* Largest length of a reference or of a binding.
MaxRefLength == 1

\* Device addresses buffers live at; NULL is no buffer.
DevicePointers == { NULL, 64, 128 }

\* Addresses of the allocation handles of the execution.
AllocationHandles == { 8, 16 }

\* handle->ptr: the first handle is committed, the second is not.
handle_ptr(handle) == IF handle = 8 THEN 64 ELSE NULL

\* iree_hal_amdgpu_device_buffer_ref_type: length_type & 0x3
iree_hal_amdgpu_device_buffer_ref_type(buffer_ref) == buffer_ref.length_type % 4

\* iree_hal_amdgpu_device_buffer_ref_length: length_type >> 2
iree_hal_amdgpu_device_buffer_ref_length(buffer_ref) == buffer_ref.length_type \div 4

\* iree_hal_amdgpu_device_buffer_ref_set
iree_hal_amdgpu_device_buffer_ref_set(type, offset, length, value) ==
  [ offset |-> offset, length_type |-> BitOr(Shl(length, 2), type), bits |-> value ]

\* The values of value.bits a reference of a type carries: a device pointer,
\* the address of an allocation handle, or a slot ordinal.
ValuesOfType(type) ==
  IF type = IREE_HAL_AMDGPU_DEVICE_BUFFER_TYPE_PTR THEN DevicePointers
  ELSE IF type = IREE_HAL_AMDGPU_DEVICE_BUFFER_TYPE_HANDLE THEN AllocationHandles
  ELSE 0 .. MaxSlot

RefsOfTypes(types) ==
  { iree_hal_amdgpu_device_buffer_ref_set(type, offset, length, value) :
      type \in types, offset \in 0 .. MaxRefOffset, length \in 0 .. MaxRefLength,
      value \in DevicePointers \cup AllocationHandles \cup (0 .. MaxSlot) }

\* The references commands are recorded with.
BufferRefs ==
  { r \in RefsOfTypes({ IREE_HAL_AMDGPU_DEVICE_BUFFER_TYPE_PTR,
                        IREE_HAL_AMDGPU_DEVICE_BUFFER_TYPE_HANDLE,
                        IREE_HAL_AMDGPU_DEVICE_BUFFER_TYPE_SLOT }) :
      r.bits \in ValuesOfType(iree_hal_amdgpu_device_buffer_ref_type(r)) }

\* The entries of a binding table: they do not reference slots
\* (command_buffer.h 880).
Bindings ==
  { r \in BufferRefs :
      iree_hal_amdgpu_device_buffer_ref_type(r) # IREE_HAL_AMDGPU_DEVICE_BUFFER_TYPE_SLOT }

\* The binding tables an execution is given: 0 .. MaxBindings entries.
BindingTables ==
  UNION { [ 1 .. n -> Bindings ] : n \in 0 .. MaxBindings }

\* What a read of binding_table[slot] beyond the table does: the kernel
\* faults, or the read returns the 24 bytes that lie there.
BeyondTableOutcomes == { "fault", "stray" }

\* The slot ordinal lies within a table of `count` entries.
slot_in_table(slot, count) == slot < count

\* binding_table[buffer_ref.value.slot]; beyond the table the read returns
\* `stray`.
binding_at(table, slot, stray) ==
  IF slot_in_table(slot, Len(table)) THEN table[slot + 1] ELSE stray

\* iree_hal_amdgpu_device_buffer_ref_length(buffer_ref) == UINT64_MAX: the
\* length is length_type >> 2, a 62-bit value, never 2^64 - 1.
ref_length_is_whole(buffer_ref) == FALSE

\* A resolve that leaves out the offset of the binding.
buffer_ref_resolve_without_binding_offset(buffer_ref, table, stray) ==
  LET binding == binding_at(table, buffer_ref.bits, stray)
      r1      == IF iree_hal_amdgpu_device_buffer_ref_type(buffer_ref)
                      = IREE_HAL_AMDGPU_DEVICE_BUFFER_TYPE_SLOT
                   THEN [ binding EXCEPT !.offset = buffer_ref.offset ]
                   ELSE buffer_ref
      r2      == IF iree_hal_amdgpu_device_buffer_ref_type(r1)
                      = IREE_HAL_AMDGPU_DEVICE_BUFFER_TYPE_HANDLE
                   THEN [ r1 EXCEPT !.bits = handle_ptr(r1.bits) ]
                   ELSE r1
  IN  IF r2.bits # NULL THEN r2.bits + r2.offset ELSE NULL

\* iree_hal_amdgpu_device_buffer_ref_resolve: the pointer it returns.
iree_hal_amdgpu_device_buffer_ref_resolve(buffer_ref, table, stray) ==
  LET binding == binding_at(table, buffer_ref.bits, stray)
      offset  == buffer_ref.offset + binding.offset
      length  == IF ref_length_is_whole(buffer_ref)
                   THEN iree_hal_amdgpu_device_buffer_ref_length(binding)
                          - buffer_ref.offset
                   ELSE iree_hal_amdgpu_device_buffer_ref_length(buffer_ref)
      r1      == IF iree_hal_amdgpu_device_buffer_ref_type(buffer_ref)
                      = IREE_HAL_AMDGPU_DEVICE_BUFFER_TYPE_SLOT
                   THEN iree_hal_amdgpu_device_buffer_ref_set(
                          iree_hal_amdgpu_device_buffer_ref_type(binding),
                          offset, length, binding.bits)
                   ELSE buffer_ref
      r2      == IF iree_hal_amdgpu_device_buffer_ref_type(r1)
                      = IREE_HAL_AMDGPU_DEVICE_BUFFER_TYPE_HANDLE
                   THEN [ r1 EXCEPT !.bits = handle_ptr(r1.bits) ]
                   ELSE r1
  IN  IF r2.bits # NULL THEN r2.bits + r2.offset ELSE NULL

\* The indices of binding_table a call of buffer_ref_resolve reads.
resolve_reads(buffer_ref) ==
  IF iree_hal_amdgpu_device_buffer_ref_type(buffer_ref)
       = IREE_HAL_AMDGPU_DEVICE_BUFFER_TYPE_SLOT
    THEN { buffer_ref.bits } ELSE {}

\* An execution with its binding table; no reference resolved yet.
InitResolve ==
  /\ binding_table \in BindingTables
  /\ resolve = NoResolve

\* The call as it returns.
Resolved(buffer_ref, fault, stray) ==
  [ called |-> TRUE, buffer_ref |-> buffer_ref, reads |-> resolve_reads(buffer_ref),
    fault |-> fault,
    ptr |-> IF fault THEN NULL
            ELSE iree_hal_amdgpu_device_buffer_ref_resolve(buffer_ref, binding_table,
                                                           stray) ]

\* The reference names a slot outside the binding table.
BeyondTable(buffer_ref) ==
  \E i \in resolve_reads(buffer_ref) : ~slot_in_table(i, Len(binding_table))

\* The issue function of the command (fill, copy, dispatch) resolves a
\* reference of the command against state->bindings; every read stays within
\* the table.
ResolveCall(buffer_ref) ==
  /\ ~resolve.called
  /\ ~BeyondTable(buffer_ref)
  /\ resolve' = Resolved(buffer_ref, FALSE, buffer_ref)
  /\ UNCHANGED binding_table
  /\ ResolveFrame

\* The same call with a slot ordinal outside the table.
ResolveCallBeyondTable(buffer_ref, outcome, stray) ==
  /\ ~resolve.called
  /\ BeyondTable(buffer_ref)
  /\ resolve' = Resolved(buffer_ref, outcome = "fault", stray)
  /\ UNCHANGED binding_table
  /\ ResolveFrame

NextResolve ==
  \/ \E buffer_ref \in BufferRefs : ResolveCall(buffer_ref)
  \/ \E buffer_ref \in BufferRefs, outcome \in BeyondTableOutcomes, stray \in BufferRefs :
       ResolveCallBeyondTable(buffer_ref, outcome, stray)

BufferResolveInit ==
  InitResolve /\ HostUnused /\ IssueUnused /\ SchedUnused /\ TraceUnused
    /\ CommitUnused /\ QueryUnused /\ MutexUnused

SpecResolve == BufferResolveInit /\ [][NextResolve]_vars

\* The last call resolved a SLOT reference whose ordinal is outside the
\* binding table.
SlotBeyondTable == resolve.called /\ BeyondTable(resolve.buffer_ref)

\* A slot ordinal outside the table is answered by a POST_ERROR.
OutOfRangeSlotReported == SlotBeyondTable => PostedErrors # {}

\* No call reads binding_table at an index beyond its element count.
ReadsWithinTable == resolve.reads \subseteq 0 .. (Len(binding_table) - 1)

(***************************************************************************)
(* C18.  Resolving a SLOT reference whose slot ordinal is outside the      *)
(* binding table of the execution is reported as POST_ERROR(MALFORMED) on  *)
(* the host queue, and buffer_ref_resolve reads binding_table only at      *)
(* indices below the element count of the table.                           *)
(***************************************************************************)
C18_SlotOutOfRangeDetected ==
  /\ OutOfRangeSlotReported
  /\ ReadsWithinTable


\* A step of the tick kernel.
TickStep == tick' # tick

\* A step of a tick that started with nothing to do and still has nothing to
\* do: no semaphore was signalled into a satisfiable wait since, so no entry
\* is on its way to the run list or on it.
QuietTickStep ==
  /\ TickStep
  /\ tick'.quiet
  /\ NoWaitSatisfiable
  /\ tick.pc # "insert"
  /\ run_list.head = NULL

\* What a tick can emit: queue entries issued to the execution queue, packets
\* on the execution, scheduler and host queues.
TickOutput == << issued, exec_packets, scheduler_queue, host_write_index, host_packets >>

WakePoolInStep ==
  \A s \in Semaphores :
    LET B == { e \in OnWaitList : entry_waits[e][1].semaphore = s } IN
    IF B # {}
      THEN /\ wake_pool[s].reserved
           /\ wake_pool[s].minimum_value =
                SetMin({ entry_waits[e][1].payload : e \in B })
      ELSE ~wake_pool[s].reserved

\* The idle tick leaves everything but the wake pool as it is ...
IdleTickKeepsListsAndQueues ==
  [][ QuietTickStep =>
        /\ UNCHANGED TickOutput
        /\ UNCHANGED << wait_list, entry_next, entry_waits >>
        /\ UNCHANGED trace_buffer ]_vars

\* ... and the wake pool as well when it was in step with the wait list.
IdleTickKeepsWakePoolInStep ==
  [][ (QuietTickStep /\ WakePoolInStep) => UNCHANGED wake_pool ]_vars

\* An idle tick ran to its end over a wait list that holds a blocked entry.
IdleTickOverBlockedEntry ==
  /\ TickDone
  /\ tick.quiet
  /\ OnWaitList # {}
  /\ NoWaitSatisfiable


(***************************************************************************)
(* Layout of the first 32 bits of an agent-dispatch packet.                *)
(***************************************************************************)
\* Bits lo .. lo + width - 1 of a word.
BitsOf(word, lo, width) == (word \div (2 ^ lo)) % (2 ^ width)

\* The fields of the first word of an agent-dispatch packet: the 16-bit AQL
\* header (type 7:0, barrier 8, acquire fence scope 10:9, release fence scope
\* 12:11, reserved 15:13) and the 16-bit agent-defined type above it.
DecodeHeaderWord(word) ==
  [ type     |-> BitsOf(word, IREE_HSA_PACKET_HEADER_TYPE, 8),
    barrier  |-> BitsOf(word, IREE_HSA_PACKET_HEADER_BARRIER, 1),
    acquire  |-> BitsOf(word, IREE_HSA_PACKET_HEADER_SCACQUIRE_FENCE_SCOPE, 2),
    release  |-> BitsOf(word, IREE_HSA_PACKET_HEADER_SCRELEASE_FENCE_SCOPE, 2),
    reserved |-> BitsOf(word, 13, 3),
    call     |-> BitsOf(word, 16, 16) ]

\* The fields of the word of a post of call type t.
HostPostFields(t) ==
  [ type     |-> IREE_HSA_PACKET_TYPE_AGENT_DISPATCH,
    barrier  |-> 1,
    acquire  |-> IREE_HSA_FENCE_SCOPE_SYSTEM,
    release  |-> IREE_HSA_FENCE_SCOPE_SYSTEM,
    reserved |-> 0,
    call     |-> t ]

\* The word put together from the fields, by position.
WordOfFields(f) ==
  f.type + (2 ^ 8) * f.barrier + (2 ^ 9) * f.acquire + (2 ^ 11) * f.release
         + (2 ^ 13) * f.reserved + (2 ^ 16) * f.call

DoorbellStep(p) ==
  /\ post[p].pc = "store"
  /\ HostPostProgram[post[p].at] = "doorbell"
  /\ post'[p] # post[p]

(***************************************************************************)
(* C21 as stated: the last store of host_post puts the new write index,    *)
(* the index following the reserved slot, on the doorbell signal.          *)
(***************************************************************************)
C21_DoorbellIsNewWriteIndex ==
  [][ \A p \in Producers :
        DoorbellStep(p) => host_doorbell' = post[p].packet_id + 1 ]_vars

(***************************************************************************)
(* C21, amended.  host_post finishes by storing the packet id it reserved  *)
(* (the write index before its reservation) to the doorbell signal, after  *)
(* the header of that packet has been published; while a single producer   *)
(* is the only caller, each doorbell value is larger than the one before.  *)
(***************************************************************************)
C21_DoorbellIsPacketId ==
  [][ \A p \in Producers :
        DoorbellStep(p) =>
          /\ host_doorbell' = post[p].packet_id
          /\ "header" \in StoredBy(p)
          /\ post'[p] = IdlePost
          /\ (host_callers = { p } /\ host_doorbell # Stale)
               => host_doorbell' > host_doorbell ]_vars

\* A single producer has rung the doorbell for its second packet or a later
\* one.
C21_Witness ==
  /\ Cardinality(host_callers) = 1
  /\ host_doorbell # Stale
  /\ host_doorbell >= 1
  /\ \A p \in Producers : post[p].pc = "idle"


\* The posts that wait in the capacity loop for a slot still out of reach.
WaitingForCapacity ==
  { p \in Producers :
      post[p].pc = "spin" /\ post[p].packet_id - host_read_index >= HostQueueSize }

(***************************************************************************)
(* C22 as stated: on the host queue write_index - read_index <= size in    *)
(* every reachable state.                                                  *)
(***************************************************************************)
C22_WriteIndexWithinSize == host_write_index - host_read_index <= HostQueueSize

(***************************************************************************)
(* C22, amended.  host_post reserves before it waits: the write index runs *)
(* ahead of the read index by at most size plus the number of posts that   *)
(* wait in the capacity loop, and a post past the loop holds a packet id   *)
(* less than size ahead of the read index.                                 *)
(***************************************************************************)
C22_WriteIndexWithinSizePlusWaiters ==
  /\ host_read_index <= host_write_index
  /\ host_write_index - host_read_index
       <= HostQueueSize + Cardinality(WaitingForCapacity)
  /\ \A p \in Producers :
       post[p].pc = "store" => post[p].packet_id - host_read_index < HostQueueSize

\* The queue is full and every producer waits for a slot.
C22_Witness ==
  /\ host_write_index - host_read_index = HostQueueSize + NumProducers
  /\ WaitingForCapacity = Producers


IREE_HSA_PACKET_TYPE_BARRIER_AND == 3

\* The work-items whose RETURN command has been issued.
ReturnsIssued ==
  { w \in WorkItems :
      /\ w < command_count
      /\ CmdOf(w).type = IREE_HAL_AMDGPU_DEVICE_CMD_RETURN
      /\ item[w] = "done" }

(***************************************************************************)
(* C23.  Once a RETURN command has been issued, the slot of the command    *)
(* holds a published barrier packet (BARRIER_AND) that carries the         *)
(* completion signal of the execution, and one scheduler tick per issued   *)
(* RETURN is on the scheduler queue.                                       *)
(***************************************************************************)
C23_ReturnEmitsBarrierAndTick ==
  /\ \A w \in ReturnsIssued :
       /\ exec_packets[QueueIndexOf(w)].header = IREE_HSA_PACKET_TYPE_BARRIER_AND
       /\ exec_packets[QueueIndexOf(w)].body = "completion_signal"
  /\ ReturnsIssued # {} => Cardinality(TicksQueued) = Cardinality(ReturnsIssued)


\* The work-items whose BRANCH command has been issued.
BranchesIssued ==
  { w \in WorkItems :
      /\ w < command_count
      /\ CmdOf(w).type = IREE_HAL_AMDGPU_DEVICE_CMD_BRANCH
      /\ item[w] = "done" }

\* The issue_block and tick dispatches published on the scheduler queue and
\* not yet consumed.
ControlDispatchesPending ==
  { q \in DOMAIN scheduler_queue.headers :
      scheduler_queue.headers[q] # IREE_HSA_PACKET_TYPE_INVALID }

(***************************************************************************)
(* C24.  A block continues only through the scheduler queue: once a BRANCH *)
(* command has been issued, the issue_block dispatch of its target block   *)
(* is pending on the scheduler queue, and at no time is more than one      *)
(* issue_block or return pending.                                          *)
(***************************************************************************)
C24_BranchEnqueuesOneIssueBlock ==
  /\ Cardinality(ControlDispatchesPending) <= 1
  /\ BranchesIssued # {} => Cardinality(ControlDispatchesPending) = 1


\* The slots (relative to base_queue_index) a recorded command owns.
SlotsOfCommand(w) ==
  { q \in DOMAIN exec_packets :
      /\ QueueIndexOf(w) <= q
      /\ q < QueueIndexOf(w) + AqlPacketCount(CmdOf(w), block.tracing) }

\* The AQL packet types a command of a type turns into: kernel dispatches for
\* the dispatches and the fill/copy builtins, barrier packets for the control
\* commands; a command of an unknown type may hold either.
PacketTypesOfCommand(type) ==
  CASE type \in { IREE_HAL_AMDGPU_DEVICE_CMD_FILL_BUFFER,
                  IREE_HAL_AMDGPU_DEVICE_CMD_COPY_BUFFER,
                  IREE_HAL_AMDGPU_DEVICE_CMD_DISPATCH,
                  IREE_HAL_AMDGPU_DEVICE_CMD_DISPATCH_INDIRECT_DYNAMIC } ->
         { IREE_HSA_PACKET_TYPE_KERNEL_DISPATCH }
    [] type = UnknownCmdType ->
         { IREE_HSA_PACKET_TYPE_KERNEL_DISPATCH, IREE_HSA_PACKET_TYPE_BARRIER_AND }
    [] OTHER -> { IREE_HSA_PACKET_TYPE_BARRIER_AND }

(***************************************************************************)
(* C25.  Recording a block and issuing it agree: once every command of the *)
(* block was issued, each command has written packets of the type its      *)
(* command type implies at exactly the aql_packet_count slots that start   *)
(* at its packet_offset (none for a debug group when control tracing is    *)
(* off), and no slot outside those ranges was written.                     *)
(***************************************************************************)
C25_IssuedPacketsMatchRecording ==
  IssueComplete =>
    \A q \in DOMAIN exec_packets :
      LET owners == { w \in 0 .. (command_count - 1) : q \in SlotsOfCommand(w) }
      IN  IF owners = {}
          THEN exec_packets[q] = InvalidPacket
          ELSE \A w \in owners :
                 exec_packets[q].header \in PacketTypesOfCommand(CmdOf(w).type)


(***************************************************************************)
(* C26.  The scheduler posts one POST_TRACE_FLUSH to the host channel for  *)
(* every call of trace_commit_range at the end of a tick that returned     *)
(* true, and none for a call that returned false: between calls the number *)
(* of posts made on the host channel is the number of true returns.        *)
(***************************************************************************)
C26_TraceFlushPostedPerCommit ==
  trace_commit.pc = "idle" => host_write_index = trace_commit.notified


(***************************************************************************)
(* The header of a dispatch packet (command_buffer.c, cmd_dispatch_commit) *)
(* and the flags of commands and executions (command_buffer.h).            *)
(***************************************************************************)
IREE_HSA_FENCE_SCOPE_AGENT == 1

IREE_HAL_AMDGPU_DEVICE_CMD_FLAG_NONE == 0
IREE_HAL_AMDGPU_DEVICE_CMD_FLAG_QUEUE_AWAIT_BARRIER == 1

IREE_HAL_AMDGPU_DEVICE_EXECUTION_FLAG_NONE == 0
IREE_HAL_AMDGPU_DEVICE_EXECUTION_FLAG_SERIALIZE == 1
IREE_HAL_AMDGPU_DEVICE_EXECUTION_FLAG_UNCACHED == 2
IREE_HAL_AMDGPU_DEVICE_EXECUTION_FLAG_TRACE_CONTROL ==
  BitOr(Shl(1, 2), IREE_HAL_AMDGPU_DEVICE_EXECUTION_FLAG_SERIALIZE)
IREE_HAL_AMDGPU_DEVICE_EXECUTION_FLAG_TRACE_DISPATCH ==
  BitOr(Shl(1, 3), IREE_HAL_AMDGPU_DEVICE_EXECUTION_FLAG_TRACE_CONTROL)

\* Calls of cmd_dispatch_commit followed over a run.
MaxCommitCalls == 2

\* Dimensions a dispatch packet's setup field names.
MaxDispatchDimensions == 3

ExecutionFlagBits ==
  { IREE_HAL_AMDGPU_DEVICE_EXECUTION_FLAG_NONE,
    IREE_HAL_AMDGPU_DEVICE_EXECUTION_FLAG_SERIALIZE,
    IREE_HAL_AMDGPU_DEVICE_EXECUTION_FLAG_UNCACHED,
    IREE_HAL_AMDGPU_DEVICE_EXECUTION_FLAG_TRACE_CONTROL,
    IREE_HAL_AMDGPU_DEVICE_EXECUTION_FLAG_TRACE_DISPATCH }

\* The values of state->flags: any of the enum values or'ed together.
ExecutionFlagSets ==
  { BitOr(BitOr(a, b), BitOr(c, d)) : a, b, c, d \in ExecutionFlagBits }

CmdFlagSets ==
  { IREE_HAL_AMDGPU_DEVICE_CMD_FLAG_NONE,
    IREE_HAL_AMDGPU_DEVICE_CMD_FLAG_QUEUE_AWAIT_BARRIER }

\* uint32_t header_type of cmd_dispatch_commit(cmd, dispatch_packet), from
\* cmd->header.flags and dispatch_packet->setup.
cmd_dispatch_commit(cmd_flags, setup) ==
  LET h0 == Shl(IREE_HSA_PACKET_TYPE_KERNEL_DISPATCH, IREE_HSA_PACKET_HEADER_TYPE)
      h1 == IF BitAnd(cmd_flags,
                      IREE_HAL_AMDGPU_DEVICE_CMD_FLAG_QUEUE_AWAIT_BARRIER) # 0
              THEN BitOr(h0, Shl(1, IREE_HSA_PACKET_HEADER_BARRIER))
              ELSE h0
      h2 == BitOr(h1, Shl(IREE_HSA_FENCE_SCOPE_AGENT,
                          IREE_HSA_PACKET_HEADER_SCACQUIRE_FENCE_SCOPE))
      h3 == BitOr(h2, Shl(IREE_HSA_FENCE_SCOPE_AGENT,
                          IREE_HSA_PACKET_HEADER_SCRELEASE_FENCE_SCOPE))
  IN  BitOr(h3, Shl(setup, 16))

\* The header of *dispatch_packet when cmd_dispatch_commit returns:
\* header_type is a local the function never stores to the packet.
cmd_dispatch_commit_packet_header(packet_header, header_type) == packet_header

InitCommit ==
  /\ execution_flags \in ExecutionFlagSets
  /\ dispatch_commit = NoCommit

\* cmd_dispatch_issue and workgroup_count_update end in
\* cmd_dispatch_commit(cmd, dispatch_packet), which takes neither the
\* execution state nor its flags.
DispatchCommit(cmd_flags, setup) ==
  /\ dispatch_commit.calls < MaxCommitCalls
  /\ dispatch_commit' = [ calls |-> dispatch_commit.calls + 1,
                          cmd_flags |-> cmd_flags,
                          setup |-> setup,
                          header_type |-> cmd_dispatch_commit(cmd_flags, setup),
                          packet_header |->
                            cmd_dispatch_commit_packet_header(
                              dispatch_commit.packet_header,
                              cmd_dispatch_commit(cmd_flags, setup)) ]
  /\ UNCHANGED execution_flags
  /\ CommitFrame

NextCommit ==
  \E cmd_flags \in CmdFlagSets, setup \in 1 .. MaxDispatchDimensions :
    DispatchCommit(cmd_flags, setup)

DispatchCommitInit ==
  InitCommit /\ HostUnused /\ IssueUnused /\ SchedUnused /\ TraceUnused
    /\ ResolveUnused /\ QueryUnused /\ MutexUnused

SpecCommit == DispatchCommitInit /\ [][NextCommit]_vars

(***************************************************************************)
(* C27.  Under an execution whose flags hold SERIALIZE (set alone or as    *)
(* part of TRACE_CONTROL or TRACE_DISPATCH), the header made for a command *)
(* has the barrier bit set, whether or not the command carries             *)
(* QUEUE_AWAIT_BARRIER.                                                    *)
(***************************************************************************)
C27_SerializeSetsBarrierBit ==
  ( /\ dispatch_commit.calls > 0
    /\ BitAnd(execution_flags, IREE_HAL_AMDGPU_DEVICE_EXECUTION_FLAG_SERIALIZE) # 0 )
  => BitsOf(dispatch_commit.header_type, IREE_HSA_PACKET_HEADER_BARRIER, 1) = 1


(***************************************************************************)
(* queue_list_insert on its own: entries of distinct epochs are inserted   *)
(* into the run list of a fresh scheduler, in any order.                   *)
(***************************************************************************)
\* Largest epoch an inserted entry carries.
MaxListEpoch == 4

ListEpochs == 1 .. MaxListEpoch

\* The entries handed to queue_list_insert so far (an epoch of 0 is that of
\* an entry not yet stamped).
Inserted == { e \in Entries : entry_epoch[e] # 0 }

\* queue_list_insert(&run_list, entry) for an entry stamped with an epoch
\* no entry of the list carries.
ListInsert(e, epoch) ==
  /\ e \notin Inserted
  /\ \A d \in Entries : entry_epoch[d] # epoch
  /\ LET stamped == [ entry_epoch EXCEPT ![e] = epoch ]
         r       == queue_list_insert(run_list, entry_next, stamped, e)
     IN  /\ entry_epoch' = stamped
         /\ run_list' = r.list
         /\ entry_next' = r.next
  /\ UNCHANGED << mailbox, entry_waits, wait_list, sched_epoch, semaphore_payload,
                  wake_pool, tick_pending, tick, issued, sched_fault, submitted >>
  /\ PoolUntouched
  /\ SchedFrame

NextList == \E e \in Entries, epoch \in ListEpochs : ListInsert(e, epoch)

QueueListInit ==
  InitSched /\ HostUnused /\ IssueUnused /\ TraceUnused /\ ResolveUnused
    /\ CommitUnused /\ QueryUnused /\ MutexUnused

SpecList == QueueListInit /\ [][NextList]_vars

\* The run list as a traversal from head sees it; one step more than there
\* are entries, so that a cycle shows as an overlong traversal.
RunListTraversal == ListSeq(run_list.head, entry_next, MaxEntries + 1)

(***************************************************************************)
(* C28.  After any sequence of queue_list_insert calls on an initially     *)
(* empty list, with distinct epochs in any order, the traversal from head  *)
(* through list_next visits the entries in strictly increasing epoch.      *)
(***************************************************************************)
C28_InsertKeepsEpochOrder ==
  \A i, j \in DOMAIN RunListTraversal :
    i < j => entry_epoch[RunListTraversal[i]] < entry_epoch[RunListTraversal[j]]

(***************************************************************************)
(* C29.  queue_list_insert neither loses nor duplicates entries: after the *)
(* inserts, exactly the inserted entries are reachable from head, each     *)
(* once and without a cycle, and tail is the last reachable entry, whose   *)
(* list_next is NULL.                                                      *)
(***************************************************************************)
C29_InsertKeepsEveryEntry ==
  /\ SeqToSet(RunListTraversal) = Inserted
  /\ Len(RunListTraversal) = Cardinality(Inserted)
  /\ Inserted # {} =>
       /\ run_list.tail = RunListTraversal[Len(RunListTraversal)]
       /\ entry_next[run_list.tail] = NULL


\* The wait list as a traversal from head sees it.
WaitListTraversal == ListSeq(wait_list.head, entry_next, MaxEntries + 1)

TickFinishStep == tick.pc = "drain" /\ tick.run_entry = NULL /\ tick'.pc = "idle"

TickWithoutSelfWakeEnqueuesNone ==
  [][ (TickFinishStep /\ ~tick.self_wake) =>
        /\ run_list'.head = NULL
        /\ trace_buffer'.write_commit_offset = trace_buffer.write_reserve_offset
        /\ scheduler_queue' = scheduler_queue
        /\ ~sched_fault' ]_vars


(***************************************************************************)
(* C32.  trace_reserve_range returns its pointer only once the range it    *)
(* reserved has room, write_offset + length - read_commit_offset <         *)
(* capacity: every return of every work-item found room, so that no range  *)
(* handed out overlaps bytes the host has not read yet.                    *)
(***************************************************************************)
C32_ReserveReturnsOnlyWithRoom ==
  \A w \in TraceWriters : trace_writer[w].fits


\* Every reservation made so far, tagged with the work-item and its ordinal.
TraceReservations ==
  { r \in TraceWriters \X (1 .. MaxTraceBytes) : r[2] <= Len(trace_writer[r[1]].ranges) }

RangeOf(r) == trace_writer[r[1]].ranges[r[2]]

BytesOf(r) == RangeOf(r).offset .. (RangeOf(r).offset + RangeOf(r).length - 1)

(***************************************************************************)
(* C33.  The ranges [offset, offset + length) the callers of               *)
(* trace_reserve_range received, concurrent ones included, are pairwise    *)
(* disjoint and together cover exactly the bytes from the first reserve    *)
(* offset up to write_reserve_offset, and the address returned for an      *)
(* offset is base + (offset mod capacity).                                 *)
(***************************************************************************)
C33_ReservedRangesDisjointContiguous ==
  /\ \A r1, r2 \in TraceReservations : r1 # r2 => BytesOf(r1) \cap BytesOf(r2) = {}
  /\ UNION { BytesOf(r) : r \in TraceReservations }
       = 0 .. (trace_buffer.write_reserve_offset - 1)
  /\ \A w \in TraceWriters :
       (trace_writer[w].pc = "idle" /\ trace_writer[w].ranges # << >>) =>
         /\ trace_writer[w].packet_ptr
              = ringbuffer_base + (trace_writer[w].returned_offset % ringbuffer_capacity)
         /\ trace_writer[w].returned_offset
              = trace_writer[w].ranges[Len(trace_writer[w].ranges)].offset

\* Two work-items are inside trace_reserve_range at once, and a third range,
\* past the first wrap of the ring, has been returned before.
C33_Witness ==
  /\ \A w \in TraceWriters : trace_writer[w].pc = "reserved"
  /\ \E w \in TraceWriters :
       /\ Len(trace_writer[w].ranges) >= 2
       /\ trace_writer[w].returned_offset >= ringbuffer_capacity
       /\ trace_writer[w].packet_ptr < ringbuffer_base + ringbuffer_capacity


(***************************************************************************)
(* Query ringbuffer (tracing.c) and the query id issue_block passes to a   *)
(* command (command_buffer.c), in a build with device control tracing.     *)
(***************************************************************************)
IREE_HAL_AMDGPU_TRACE_EXECUTION_QUERY_ID_INVALID == 65535

\* Largest count of one acquire.
MaxQueryCount == 2
\* Query ids acquired over a run.
MaxQueryIndex == 4

\* The relative query ids a recorded command carries.
RelativeQueryIds == { 0, 1, IREE_HAL_AMDGPU_TRACE_EXECUTION_QUERY_ID_INVALID }

\* iree_hal_amdgpu_device_query_ringbuffer_query_id: the signal slot of an
\* absolute query index.
query_ringbuffer_query_id(index) == index % QuerySignalCount

\* The selection of execution_query_id in issue_block.
issue_block_query_id(flags, control_id, dispatch_id, base) ==
  IF /\ BitAnd(flags, IREE_HAL_AMDGPU_DEVICE_EXECUTION_FLAG_TRACE_DISPATCH) # 0
     /\ dispatch_id # IREE_HAL_AMDGPU_TRACE_EXECUTION_QUERY_ID_INVALID
    THEN [ from |-> "dispatch_id",
           execution_query_id |-> query_ringbuffer_query_id(base + dispatch_id) ]
  ELSE IF /\ BitAnd(flags, IREE_HAL_AMDGPU_DEVICE_EXECUTION_FLAG_TRACE_CONTROL) # 0
          /\ control_id # IREE_HAL_AMDGPU_TRACE_EXECUTION_QUERY_ID_INVALID
    THEN [ from |-> "control_id",
           execution_query_id |-> query_ringbuffer_query_id(base + control_id) ]
  ELSE [ from |-> "none",
         execution_query_id |-> IREE_HAL_AMDGPU_TRACE_EXECUTION_QUERY_ID_INVALID ]

\* iree_hal_amdgpu_device_query_ringbuffer_acquire
query_ringbuffer_acquire(ringbuffer, count) ==
  [ ringbuffer |-> [ ringbuffer EXCEPT !.write_index = @ + count ],
    base_index |-> ringbuffer.write_index ]

\* Release that resets the signals to a value of 0.
query_ringbuffer_release_to_zero(ringbuffer, count) ==
  [ ringbuffer EXCEPT
      !.signals = [ s \in QuerySlots |->
                      IF \E i \in ringbuffer.read_index ..
                                  (ringbuffer.read_index + count - 1) :
                           i % QuerySignalCount = s
                        THEN [ FreshSignal EXCEPT !.value = 0 ]
                        ELSE @[s] ],
      !.read_index = @ + count ]

\* iree_hal_amdgpu_device_query_ringbuffer_release: the loop over
\* [read_index, read_index + count) and read_index += count.
query_ringbuffer_release(ringbuffer, count) ==
  [ ringbuffer EXCEPT
      !.signals = [ s \in QuerySlots |->
                      IF \E i \in ringbuffer.read_index ..
                                  (ringbuffer.read_index + count - 1) :
                           BitAnd(i, QuerySignalCount - 1) = s
                        THEN FreshSignal
                        ELSE @[s] ],
      !.read_index = @ + count ]

InitQuery ==
  /\ query_ringbuffer = query_ringbuffer_initialize
  /\ query_call = NoQueryCall
  /\ issue_query = NoIssueQuery
  /\ execution_flags \in ExecutionFlagSets
  /\ dispatch_commit = NoCommit

\* A block is enqueued: trace_block_query_base_id =
\* query_ringbuffer_acquire(&query_ringbuffer, count).
QueryAcquire(count) ==
  /\ query_ringbuffer.write_index + count <= MaxQueryIndex
  /\ LET r == query_ringbuffer_acquire(query_ringbuffer, count) IN
       /\ query_ringbuffer' = r.ringbuffer
       /\ query_call' = [ op |-> "acquire", count |-> count,
                          base |-> r.base_index, acquired |-> count ]
  /\ UNCHANGED issue_query
  /\ QueryFrame

\* The packet processor retires the packet that carries query index i: the
\* signal is decremented and the timestamps are set.
QuerySignalRetire(i) ==
  /\ query_ringbuffer.read_index <= i
  /\ i < query_ringbuffer.write_index
  /\ query_ringbuffer.signals[query_ringbuffer_query_id(i)].value = 1
  /\ query_ringbuffer' =
       [ query_ringbuffer EXCEPT !.signals[query_ringbuffer_query_id(i)] =
           [ value |-> 0, start_ts |-> 1, end_ts |-> 2 ] ]
  /\ UNCHANGED << query_call, issue_query >>
  /\ QueryFrame

\* query_ringbuffer_release(&query_ringbuffer, count), called for ids that
\* were acquired.
QueryRelease(count) ==
  /\ count <= query_ringbuffer.write_index - query_ringbuffer.read_index
  /\ query_ringbuffer' = query_ringbuffer_release(query_ringbuffer, count)
  /\ query_call' = [ query_call EXCEPT !.op = "release", !.count = count ]
  /\ UNCHANGED issue_query
  /\ QueryFrame

\* issue_block computes execution_query_id for a command whose query map
\* entry is {control_id, dispatch_id}.
IssueBlockQueryId(control_id, dispatch_id) ==
  /\ LET r == issue_block_query_id(execution_flags, control_id, dispatch_id,
                                   query_call.base)
     IN  issue_query' = [ called |-> TRUE, control_id |-> control_id,
                          dispatch_id |-> dispatch_id, from |-> r.from,
                          execution_query_id |-> r.execution_query_id ]
  /\ UNCHANGED << query_ringbuffer, query_call >>
  /\ QueryFrame

NextQuery ==
  \/ \E count \in 0 .. MaxQueryCount : QueryAcquire(count)
  \/ \E i \in 0 .. MaxQueryIndex : QuerySignalRetire(i)
  \/ \E count \in 1 .. MaxQueryCount : QueryRelease(count)
  \/ \E control_id, dispatch_id \in RelativeQueryIds :
       IssueBlockQueryId(control_id, dispatch_id)

QueryRingbufferInit ==
  InitQuery /\ HostUnused /\ IssueUnused /\ SchedUnused /\ TraceUnused
    /\ ResolveUnused /\ MutexUnused

SpecQuery == QueryRingbufferInit /\ [][NextQuery]_vars

\* The execution flags hold every bit of the flag value f.
FlagsEnable(f) == BitAnd(execution_flags, f) = f

(***************************************************************************)
(* C34.  The query id of a command comes from dispatch_id only under       *)
(* execution flags that enable dispatch tracing, from control_id only      *)
(* under flags that enable control tracing, and is INVALID under flags     *)
(* that enable neither (NONE, SERIALIZE alone, UNCACHED alone).            *)
(***************************************************************************)
C34_QueryIdFollowsTraceFlags ==
  issue_query.called =>
    /\ issue_query.from = "dispatch_id" =>
         FlagsEnable(IREE_HAL_AMDGPU_DEVICE_EXECUTION_FLAG_TRACE_DISPATCH)
    /\ issue_query.from = "control_id" =>
         FlagsEnable(IREE_HAL_AMDGPU_DEVICE_EXECUTION_FLAG_TRACE_CONTROL)
    /\ ~FlagsEnable(IREE_HAL_AMDGPU_DEVICE_EXECUTION_FLAG_TRACE_CONTROL) =>
         issue_query.execution_query_id
           = IREE_HAL_AMDGPU_TRACE_EXECUTION_QUERY_ID_INVALID


\* The absolute query indices acquired and not yet released.
OutstandingQueries ==
  { i \in 0 .. MaxQueryIndex :
      query_ringbuffer.read_index <= i /\ i < query_ringbuffer.write_index }

(***************************************************************************)
(* C39.  The query ringbuffer never hands out an id that aliases a query   *)
(* still outstanding: read_index <= write_index and write_index -          *)
(* read_index <= the number of signals, whatever acquires and releases     *)
(* were made.                                                              *)
(***************************************************************************)
C39_OutstandingQueriesFitSignals ==
  /\ query_ringbuffer.read_index <= query_ringbuffer.write_index
  /\ query_ringbuffer.write_index - query_ringbuffer.read_index
       <= QuerySignalCount
  /\ \A i, j \in OutstandingQueries :
       i # j => query_ringbuffer_query_id(i) # query_ringbuffer_query_id(j)

\* read_index never passes write_index when releases return acquired ids.
ReadIndexBehindWriteIndex ==
  query_ringbuffer.read_index <= query_ringbuffer.write_index

\* The signal slots of the outstanding queries.
OutstandingSlots == { query_ringbuffer_query_id(i) : i \in OutstandingQueries }

AcquireStep ==
  /\ query_call'.op = "acquire"
  /\ \/ query_call' # query_call
     \/ query_ringbuffer'.write_index # query_ringbuffer.write_index

ReleaseStep ==
  /\ query_call'.op = "release"
  /\ query_ringbuffer'.read_index # query_ringbuffer.read_index

\* The slots of the count oldest outstanding queries.
ReleasedSlots ==
  { query_ringbuffer_query_id(i) :
      i \in { j \in OutstandingQueries :
                j < query_ringbuffer.read_index + query_call'.count } }

(***************************************************************************)
(* C40.  Successive acquires return contiguous bases (base = previous      *)
(* base + previous count); release(count) resets exactly the signals of    *)
(* the count oldest outstanding queries to value 1 with zero timestamps    *)
(* and advances read_index by count, leaving everything else unchanged;    *)
(* and every signal outside the outstanding range has the value 1.         *)
(***************************************************************************)
C40_AcquireContiguousReleaseResets ==
  /\ [][ AcquireStep =>
           /\ query_call'.base = query_call.base + query_call.acquired
           /\ query_ringbuffer'.write_index
                = query_call'.base + query_call'.count
           /\ query_ringbuffer'.read_index = query_ringbuffer.read_index
           /\ query_ringbuffer'.signals = query_ringbuffer.signals ]_vars
  /\ [][ ReleaseStep =>
           /\ query_ringbuffer'.read_index
                = query_ringbuffer.read_index + query_call'.count
           /\ query_ringbuffer'.write_index = query_ringbuffer.write_index
           /\ \A s \in QuerySlots :
                query_ringbuffer'.signals[s]
                  = IF s \in ReleasedSlots THEN FreshSignal
                    ELSE query_ringbuffer.signals[s] ]_vars
  /\ [](\A s \in QuerySlots \ OutstandingSlots :
          query_ringbuffer.signals[s].value = 1)

\* Two acquires were made, the older query was retired and released, and
\* the younger one was retired and is still outstanding.
C40_Witness ==
  /\ query_call.op = "release"
  /\ query_call.base >= 1
  /\ query_ringbuffer.read_index = 1
  /\ query_ringbuffer.write_index = 2
  /\ query_ringbuffer.signals[query_ringbuffer_query_id(1)].value = 0
  /\ query_ringbuffer.signals[query_ringbuffer_query_id(0)] = FreshSignal


(***************************************************************************)
(* Device spin-lock mutex (mutex.h).  A thread is "idle" outside the       *)
(* mutex, at "cas", "load" or "yield" inside mutex_lock, and "held" from   *)
(* the return of mutex_lock to its mutex_unlock.                           *)
(***************************************************************************)
InsideLock == { "cas", "load", "yield" }

\* A compare-exchange that takes the mutex whatever its value.
mutex_compare_exchange_blind(value) ==
  [ success |-> TRUE, value |-> IREE_HAL_AMDGPU_DEVICE_MUTEX_LOCKED ]

\* compare_exchange_strong(mutex, &prev = UNLOCKED, LOCKED)
mutex_compare_exchange(value) ==
  IF value = IREE_HAL_AMDGPU_DEVICE_MUTEX_UNLOCKED
    THEN [ success |-> TRUE, value |-> IREE_HAL_AMDGPU_DEVICE_MUTEX_LOCKED ]
    ELSE [ success |-> FALSE, value |-> value ]

\* An unlock that stores nothing.
mutex_unlock_keeps(value) == value

\* mutex_unlock: atomic store of UNLOCKED.
mutex_unlock(value) == IREE_HAL_AMDGPU_DEVICE_MUTEX_UNLOCKED

InitMutex ==
  /\ mutex = IREE_HAL_AMDGPU_DEVICE_MUTEX_UNLOCKED
  /\ mutex_thread = [ t \in Threads |-> "idle" ]
  /\ mutex_lock_returns = 0

\* A thread calls mutex_lock.
MutexLockCall(t) ==
  /\ mutex_thread[t] = "idle"
  /\ mutex_thread' = [ mutex_thread EXCEPT ![t] = "cas" ]
  /\ UNCHANGED << mutex, mutex_lock_returns >>
  /\ MutexFrame

\* The compare-exchange at the top of the loop: returns on success.
MutexLockCas(t) ==
  /\ mutex_thread[t] = "cas"
  /\ LET r == mutex_compare_exchange(mutex) IN
       /\ mutex' = r.value
       /\ mutex_thread' = [ mutex_thread EXCEPT
                              ![t] = IF r.success THEN "held" ELSE "load" ]
       /\ mutex_lock_returns' = IF r.success THEN (mutex_lock_returns + 1) % 2
                                 ELSE mutex_lock_returns
  /\ MutexFrame

\* while (atomic_load(mutex)) ...: back to the compare-exchange once the
\* load reads UNLOCKED.
MutexLockLoad(t) ==
  /\ mutex_thread[t] = "load"
  /\ mutex_thread' = [ mutex_thread EXCEPT
                         ![t] = IF mutex # 0 THEN "yield" ELSE "cas" ]
  /\ UNCHANGED << mutex, mutex_lock_returns >>
  /\ MutexFrame

\* iree_hal_amdgpu_device_yield() in the spin loop.
MutexLockYield(t) ==
  /\ mutex_thread[t] = "yield"
  /\ mutex_thread' = [ mutex_thread EXCEPT ![t] = "load" ]
  /\ UNCHANGED << mutex, mutex_lock_returns >>
  /\ MutexFrame

\* The holder calls mutex_unlock.
MutexUnlock(t) ==
  /\ mutex_thread[t] = "held"
  /\ mutex' = mutex_unlock(mutex)
  /\ mutex_thread' = [ mutex_thread EXCEPT ![t] = "idle" ]
  /\ UNCHANGED mutex_lock_returns
  /\ MutexFrame

\* The steps a thread takes once it has called mutex_lock.
MutexStep(t) ==
  MutexLockCas(t) \/ MutexLockLoad(t) \/ MutexLockYield(t) \/ MutexUnlock(t)

NextMutex ==
  \/ \E t \in Threads : MutexLockCall(t)
  \/ \E t \in Threads : MutexLockCas(t)
  \/ \E t \in Threads : MutexLockLoad(t)
  \/ \E t \in Threads : MutexLockYield(t)
  \/ \E t \in Threads : MutexUnlock(t)

DeviceMutexInit ==
  InitMutex /\ HostUnused /\ IssueUnused /\ SchedUnused /\ TraceUnused
    /\ ResolveUnused /\ CommitUnused /\ QueryUnused

SpecMutex == DeviceMutexInit /\ [][NextMutex]_vars

\* Every thread that is scheduled keeps running, and every holder unlocks.
SpecMutexFair ==
  DeviceMutexInit /\ [][NextMutex]_vars
    /\ \A t \in Threads : WF_vars(MutexStep(t))

Holders == { t \in Threads : mutex_thread[t] = "held" }

(***************************************************************************)
(* C37.  Mutual exclusion: at most one thread is between a returned        *)
(* mutex_lock and its mutex_unlock, and the mutex value is LOCKED exactly  *)
(* while some thread holds it.                                             *)
(***************************************************************************)
C37_MutexMutualExclusion ==
  /\ Cardinality(Holders) <= 1
  /\ mutex = IREE_HAL_AMDGPU_DEVICE_MUTEX_LOCKED <=> Holders # {}
  /\ mutex = IREE_HAL_AMDGPU_DEVICE_MUTEX_UNLOCKED <=> Holders = {}

\* One thread holds the mutex while two others contend: one at its
\* compare-exchange, one yielding in the spin loop.
C37_Witness ==
  /\ Cardinality(Holders) = 1
  /\ \E t \in Threads : mutex_thread[t] = "cas"
  /\ \E t \in Threads : mutex_thread[t] = "yield"

(***************************************************************************)
(* C38.  Deadlock freedom under weak fairness with holders that unlock:    *)
(* whenever a thread is inside mutex_lock, some thread eventually returns  *)
(* from mutex_lock.                                                        *)
(***************************************************************************)
C38_MutexLockEventuallyReturns ==
  \A n \in 0 .. 1 :
    ((\E t \in Threads : mutex_thread[t] \in InsideLock) /\ mutex_lock_returns = n)
      ~> (mutex_lock_returns # n)

\* A thread spins inside mutex_lock while another one holds the mutex.
C38_Witness ==
  /\ mutex = IREE_HAL_AMDGPU_DEVICE_MUTEX_LOCKED
  /\ \E t \in Threads : mutex_thread[t] = "yield"
  /\ \E t \in Threads : mutex_thread[t] = "held"
  /\ \E t \in Threads : mutex_thread[t] = "idle"


\* The last committed command carried QUEUE_AWAIT_BARRIER.
CommittedWithAwaitBarrier ==
  BitAnd(dispatch_commit.cmd_flags,
         IREE_HAL_AMDGPU_DEVICE_CMD_FLAG_QUEUE_AWAIT_BARRIER) # 0

(***************************************************************************)
(* C35.  Once a dispatch command was committed, the header of its first    *)
(* AQL packet is published as a kernel dispatch with the barrier bit set   *)
(* when the command carries QUEUE_AWAIT_BARRIER and clear when it does     *)
(* not.                                                                    *)
(***************************************************************************)
C35_AwaitBarrierSetsPacketBarrierBit ==
  dispatch_commit.calls > 0 =>
    /\ HeaderTypeOf(dispatch_commit.packet_header)
         = IREE_HSA_PACKET_TYPE_KERNEL_DISPATCH
    /\ BitsOf(dispatch_commit.packet_header, IREE_HSA_PACKET_HEADER_BARRIER, 1)
         = IF CommittedWithAwaitBarrier THEN 1 ELSE 0

\* The word cmd_dispatch_commit computes does follow the command flag.
ComputedHeaderFollowsAwaitBarrier ==
  dispatch_commit.calls > 0 =>
    /\ HeaderTypeOf(dispatch_commit.header_type)
         = IREE_HSA_PACKET_TYPE_KERNEL_DISPATCH
    /\ BitsOf(dispatch_commit.header_type, IREE_HSA_PACKET_HEADER_BARRIER, 1)
         = IF CommittedWithAwaitBarrier THEN 1 ELSE 0


\* The last call resolved a reference whose reads stayed within the table.
ResolvedWithinTable ==
  resolve.called /\ ~resolve.fault /\ ~BeyondTable(resolve.buffer_ref)

\* The base pointer of a PTR or HANDLE reference.
BasePointerOf(buffer_ref) ==
  IF iree_hal_amdgpu_device_buffer_ref_type(buffer_ref)
       = IREE_HAL_AMDGPU_DEVICE_BUFFER_TYPE_HANDLE
    THEN handle_ptr(buffer_ref.bits)
    ELSE buffer_ref.bits

(***************************************************************************)
(* C36.  buffer_ref_resolve returns ptr + offset for a PTR reference,      *)
(* handle->ptr + offset for a HANDLE reference, and for a SLOT reference   *)
(* the base pointer of the binding in that slot plus the offset of the     *)
(* binding plus the offset of the reference; it returns NULL whenever the  *)
(* base pointer is NULL, whatever the offsets, and reads the binding table *)
(* once, at the slot of the reference, and only for a SLOT reference.      *)
(***************************************************************************)
C36_ResolveAddsOffsetsToBasePointer ==
  ResolvedWithinTable =>
    LET buffer_ref == resolve.buffer_ref
        is_slot == iree_hal_amdgpu_device_buffer_ref_type(buffer_ref)
                     = IREE_HAL_AMDGPU_DEVICE_BUFFER_TYPE_SLOT
        binding == binding_table[buffer_ref.bits + 1]
        base    == IF is_slot THEN BasePointerOf(binding)
                   ELSE BasePointerOf(buffer_ref)
        offset  == IF is_slot THEN binding.offset + buffer_ref.offset
                   ELSE buffer_ref.offset
    IN  /\ resolve.ptr = IF base = NULL THEN NULL ELSE base + offset
        /\ resolve.reads = IF is_slot THEN { buffer_ref.bits } ELSE {}

\* A SLOT reference with a non-zero offset was resolved through a HANDLE
\* binding with a non-zero offset to the committed allocation.
C36_Witness ==
  /\ ResolvedWithinTable
  /\ iree_hal_amdgpu_device_buffer_ref_type(resolve.buffer_ref)
       = IREE_HAL_AMDGPU_DEVICE_BUFFER_TYPE_SLOT
  /\ resolve.buffer_ref.offset = 1
  /\ LET binding == binding_table[resolve.buffer_ref.bits + 1] IN
       /\ iree_hal_amdgpu_device_buffer_ref_type(binding)
            = IREE_HAL_AMDGPU_DEVICE_BUFFER_TYPE_HANDLE
       /\ binding.offset = 1
       /\ resolve.ptr = handle_ptr(binding.bits) + 2
       /\ resolve.ptr # 2

=============================================================================
